---- MODULE Spec2Model ----
(***************************************************************************)
(* sij: a SQL AST and its renderer (src/src/render/index.ts).              *)
(*                                                                         *)
(* A Renderer is modelled as the record `this` = [params, _paramsMode,     *)
(* _placeHolderStyle].  Every render method is an operator taking `this`   *)
(* and a node and returning [error, text, params]:                         *)
(*   error  "" when the method returned, the Error's message when it threw *)
(*   text   the returned string, as the sequence of pieces the method      *)
(*          concatenated (Flatten gives the string itself)                 *)
(*   params this.params when the method returned or threw                  *)
(* JavaScript values are tagged (JsNum, JsStr, ...) so that a buffer may   *)
(* hold values of several types.                                           *)
(***************************************************************************)
EXTENDS Integers, Sequences, FiniteSets, TLC

VARIABLES opts, renderer, last, calls, twin, builders, created, made

vars == <<opts, renderer, last, calls, twin, builders, created, made>>

\* How many render calls one Renderer instance receives.
MaxCalls == 2
\* A Renderer instance is called again while its buffer holds at most this
\* many values.
MaxBuffered == 1
\* How many builders are constructed.
MaxBuilders == 3

----------------------------------------------------------------------------
(* JavaScript values *)

JsNum(n) == [t |-> "number", v |-> n]
JsStr(s) == [t |-> "string", v |-> s]
JsBool(b) == [t |-> "boolean", v |-> b]
JsNull == [t |-> "null"]
\* A Date at midnight UTC.
JsDate(y, m, d) == [t |-> "Date", year |-> y, month |-> m, day |-> d]
JsObj(s) == [t |-> "object", v |-> s]
undefined == [t |-> "undefined"]
\* obj[name]: undefined when the object has no such property
property(obj, name) == IF name \in DOMAIN obj THEN obj[name] ELSE undefined

Pad(n, width) ==
    IF width = 4
    THEN (IF n < 10 THEN "000" ELSE IF n < 100 THEN "00" ELSE IF n < 1000 THEN "0" ELSE "")
         \o ToString(n)
    ELSE (IF n < 10 THEN "0" ELSE "") \o ToString(n)

\* Date.prototype.toISOString, for the years 0..9999
toISOString(d) ==
    Pad(d.year, 4) \o "-" \o Pad(d.month, 2) \o "-" \o Pad(d.day, 2) \o "T00:00:00.000Z"

\* '' + v for an integral number
NumberToString(n) == ToString(n)

RECURSIVE Flatten(_)
Flatten(chunks) == IF chunks = <<>> THEN "" ELSE Head(chunks) \o Flatten(Tail(chunks))

----------------------------------------------------------------------------
(* Results of a render method *)

null == [_tag |-> "null"]

\* `object` is the value returned when it is no string, null otherwise
Ok(text, params) == [error |-> "", text |-> text, params |-> params, object |-> null]
Throw(msg, params) == [error |-> msg, text |-> <<>>, params |-> params, object |-> null]
\* return of a value that is no string
Return(value, params) == [error |-> "", text |-> <<>>, params |-> params, object |-> value]
Failed(r) == r.error # ""
\* a write of the buffer that resets the placeholder style as well
With_ResetStyle(this, params) == [this EXCEPT !.params = params, !._placeHolderStyle = "$"]

With(this, params) == [this EXCEPT !.params = params]
\* what a method returns after the calls r: their throw, or `text`
Done(r, text) == IF Failed(r) THEN Throw(r.error, r.params) ELSE Ok(text, r.params)

\* texts.join(sep)
RECURSIVE JoinTexts(_, _)
JoinTexts(texts, sep) ==
    IF texts = <<>> THEN <<>>
    ELSE IF Len(texts) = 1 THEN texts[1]
    ELSE texts[1] \o <<sep>> \o JoinTexts(Tail(texts), sep)

(* The calls a method makes, in the order it makes them.  A step [f, x] is the
   call this[f](x); Run makes the calls of `steps` in order, each on the buffer
   the one before left, and stops at the first throw.  Apply is the call itself. *)
Step(f, x) == [f |-> f, x |-> x]
\* x === null ? '' : pre + this[g](x) + post
Optional(pre, g, x, post) == Step("optional", [pre |-> pre, g |-> g, x |-> x, post |-> post])
\* xs.map(x => this[g](x)).join(sep)
Mapped(g, xs, sep) == Step("mapJoin", [g |-> g, xs |-> xs, sep |-> sep])
\* xs.length === 0 ? '' : pre + xs.map(x => this[g](x)).join(sep) + post
NonEmpty(pre, g, xs, sep, post) ==
    Step("nonEmpty", [pre |-> pre, g |-> g, xs |-> xs, sep |-> sep, post |-> post])

RECURSIVE Run(_, _), Apply(_, _, _)
Run(this, steps) ==
    IF steps = <<>> THEN [error |-> "", texts |-> <<>>, params |-> this.params]
    ELSE LET h == Apply(Head(steps).f, this, Head(steps).x)
             t == Run(With(this, h.params), Tail(steps))
         IN  IF Failed(h) THEN [error |-> h.error, texts |-> <<>>, params |-> h.params]
             ELSE [error |-> t.error, texts |-> <<h.text>> \o t.texts, params |-> t.params]

MapJoin(g, this, xs, sep) ==
    LET r == Run(this, [i \in 1..Len(xs) |-> Step(g, xs[i])])
    IN  Done(r, JoinTexts(r.texts, sep))

----------------------------------------------------------------------------
(* Renderer *)

\* a constructor whose default placeholder style is '?'
Constructor_QuestionByDefault(o) ==
    [params |-> <<>>,
     _paramsMode |-> IF o.paramsMode = "undefined" THEN FALSE ELSE o.paramsMode = "true",
     _placeHolderStyle |-> IF o.placeHolderStyle = "undefined" THEN "?"
                           ELSE o.placeHolderStyle]

\* a constructor that hands every instance the buffer of the first one
Constructor_SharedBuffer(o) ==
    [params |-> IF calls = 0 THEN <<>> ELSE renderer.params,
     _paramsMode |-> IF o.paramsMode = "undefined" THEN FALSE ELSE o.paramsMode = "true",
     _placeHolderStyle |-> IF o.placeHolderStyle = "undefined" THEN "$"
                           ELSE o.placeHolderStyle]

\* constructor(opts): opts.paramsMode ?? false, opts.placeHolderStyle ?? '$'
Constructor(o) ==
    [params |-> <<>>,
     _paramsMode |-> IF o.paramsMode = "undefined" THEN FALSE ELSE o.paramsMode = "true",
     _placeHolderStyle |-> IF o.placeHolderStyle = "undefined" THEN "$"
                           ELSE o.placeHolderStyle]

\* an identifier written without its quotes
renderIdent_Bare(this, ident) == Ok(<<ident.name>>, this.params)

renderIdent(this, ident) ==
    IF ident = undefined
    THEN Throw("TypeError: Cannot read properties of undefined (reading 'name')", this.params)
    ELSE Ok(<<"\"" \o ident.name \o "\"">>, this.params)

\* a placeholder numbered from 0
renderPlaceholder_ZeroBased(this, n) ==
    IF this._placeHolderStyle = "?" THEN "?" ELSE "$" \o NumberToString(n - 1)

renderPlaceholder(this, n) ==
    IF this._placeHolderStyle = "?" THEN "?" ELSE "$" \o NumberToString(n)

\* a pre-formatted numeric string quoted like a StringLit
renderLiteral_QuotedNumericString(this, literal) ==
    IF this._paramsMode
    THEN LET val == IF literal._tag = "NullLit" THEN JsNull ELSE literal.val
             pushed == Append(this.params, val)
             l == Len(pushed)
         IN  Ok(<<renderPlaceholder(this, l)>>, pushed)
    ELSE CASE literal._tag = "NumLit" ->
                LET v == literal.val
                IN  Ok(<<IF v.t = "string" THEN "'" \o v.v \o "'" ELSE NumberToString(v.v)>>,
                       this.params)
           [] literal._tag = "StringLit" ->
                Ok(<<"'" \o literal.val.v \o "'">>, this.params)
           [] literal._tag = "BoolLit" ->
                Ok(<<IF literal.val.v THEN "TRUE" ELSE "FALSE">>, this.params)
           [] literal._tag = "NullLit" -> Ok(<<"NULL">>, this.params)
           [] literal._tag = "DateLit" ->
                Ok(<<"DATE '" \o toISOString(literal.val) \o "'">>, this.params)
           [] literal._tag = "CustomLit" ->
                Throw("Custom literal encountered, please extend the renderer", this.params)

\* renderLiteral binding into a buffer it empties first
renderLiteral_FreshBuffer(this, literal) ==
    IF this._paramsMode
    THEN LET val == IF literal._tag = "NullLit" THEN JsNull ELSE literal.val
         IN  Ok(<<renderPlaceholder(this, 1)>>, <<val>>)
    ELSE renderLiteral_QuotedNumericString(this, literal)

renderLiteral(this, literal) ==
    IF this._paramsMode
    THEN LET val == IF literal._tag = "NullLit" THEN JsNull ELSE literal.val
             pushed == Append(this.params, val)
             l == Len(pushed)
         IN  Ok(<<renderPlaceholder(this, l)>>, pushed)
    ELSE CASE literal._tag = "NumLit" ->
                LET v == literal.val
                IN  Ok(<<IF v.t = "string" THEN v.v ELSE NumberToString(v.v)>>, this.params)
           [] literal._tag = "StringLit" ->
                Ok(<<"'" \o literal.val.v \o "'">>, this.params)
           [] literal._tag = "BoolLit" ->
                Ok(<<IF literal.val.v THEN "TRUE" ELSE "FALSE">>, this.params)
           [] literal._tag = "NullLit" -> Ok(<<"NULL">>, this.params)
           [] literal._tag = "DateLit" ->
                Ok(<<"DATE '" \o toISOString(literal.val) \o "'">>, this.params)
           [] literal._tag = "CustomLit" ->
                Throw("Custom literal encountered, please extend the renderer", this.params)

renderCustomExpr(this, dt) ==
    Throw("Custom expression encountered, please extend the renderer", this.params)

\* class TypedRenderer extends Renderer { renderDataType(dt) { return dt._tag } }:
\* an instance of the subclass carries the override
TypedRenderer(this) == this @@ [renderDataType |-> "override"]

renderDataType(this, dt) ==
    IF "renderDataType" \in DOMAIN this THEN Ok(<<dt._tag>>, this.params)
    ELSE Throw("Unimplemented", this.params)

renderCustomTable(this, dt) ==
    Throw("Custom table encountered, please extend the renderer", this.params)

\* ({condition, result}) => `WHEN ${condition} THEN ${result}`
renderCase(this, c) ==
    LET r == Run(this, <<Step("renderExpr", c.condition), Step("renderExpr", c.result)>>)
    IN  Done(r, <<"WHEN ">> \o r.texts[1] \o <<" THEN ">> \o r.texts[2])

renderExpr(this, expr) ==
    CASE expr._tag = "Ident" -> renderIdent(this, expr)
      [] expr._tag = "Wildcard" -> Ok(<<"*">>, this.params)
      [] expr._tag = "QualifiedWildcard" ->
            LET qualifiers == MapJoin("renderExpr", this, expr.qualifiers, ".")
            IN  Done(qualifiers, IF Flatten(qualifiers.text) = "" THEN <<"*">>
                                 ELSE qualifiers.text \o <<".*">>)
      [] expr._tag = "CompoundIdentifier" -> MapJoin("renderExpr", this, expr.idChain, ".")
      [] expr._tag = "Between" ->
            LET not == IF expr.negated THEN <<" NOT">> ELSE <<>>
                r == Run(this, <<Step("renderExpr", expr.expr), Step("renderExpr", expr.low),
                                 Step("renderExpr", expr.high)>>)
            IN  Done(r, r.texts[1] \o not \o <<" BETWEEN ">> \o r.texts[2] \o <<" AND ">>
                        \o r.texts[3])
      [] expr._tag = "BinaryApp" ->
            LET r == Run(this, <<Step("renderExpr", expr.left), Step("renderExpr", expr.right)>>)
            IN  Done(r, r.texts[1] \o <<" ", expr.op, " ">> \o r.texts[2])
      [] expr._tag = "Case" ->
            LET r == Run(this, <<Optional(<<" ">>, "renderExpr", expr.expr, <<>>),
                                 Mapped("renderCase", expr.cases, " "),
                                 Optional(<<"ELSE ">>, "renderExpr", expr.elseCase, <<" ">>)>>)
            IN  Done(r, <<"CASE">> \o r.texts[1] \o <<" ">> \o r.texts[2] \o <<" ">>
                        \o r.texts[3] \o <<"END">>)
      [] expr._tag = "Cast" ->
            LET r == Run(this, <<Step("renderExpr", expr.expr),
                                 Step("renderDataType", expr.dataType)>>)
            IN  Done(r, <<"CAST(">> \o r.texts[1] \o <<" AS ">> \o r.texts[2] \o <<")">>)
      [] expr._tag = "Collate" ->
            LET r == Run(this, <<Step("renderExpr", expr.expr),
                                 Step("renderExpr", expr.collation)>>)
            IN  Done(r, r.texts[1] \o <<" COLLATE ">> \o r.texts[2])
      [] expr._tag = "Exists" ->
            LET sub == Apply("renderQuery", this, expr.subQuery)
            IN  Done(sub, <<"EXISTS(">> \o sub.text \o <<")">>)
      [] expr._tag = "Extract" ->
            LET source == Apply("renderExpr", this, expr.source)
            IN  Done(source, <<"EXTRACT(", expr.field, " FROM ">> \o source.text \o <<")">>)
      [] expr._tag = "FunctionApp" ->
            LET r == Run(this, <<Mapped("renderExpr", expr.args, ", "),
                                 Step("renderExpr", expr.name)>>)
            IN  Done(r, r.texts[2] \o <<"(">> \o r.texts[1] \o <<")">>)
      [] expr._tag = "IsNull" ->
            LET not == IF expr.negated THEN <<" NOT">> ELSE <<>>
                e == Apply("renderExpr", this, expr.expr)
            IN  Done(e, e.text \o <<" IS">> \o not \o <<" NULL">>)
      [] expr._tag = "InList" ->
            LET not == IF expr.negated THEN <<" NOT">> ELSE <<>>
                r == Run(this, <<Mapped("renderExpr", expr.list, ", "),
                                 Step("renderExpr", expr.expr)>>)
            IN  Done(r, r.texts[2] \o not \o <<" IN (">> \o r.texts[1] \o <<")">>)
      [] expr._tag = "InSubQuery" ->
            LET not == IF expr.negated THEN <<" NOT">> ELSE <<>>
                r == Run(this, <<Step("renderQuery", expr.subQuery),
                                 Step("renderExpr", expr.expr)>>)
            IN  Done(r, r.texts[2] \o not \o <<" IN (">> \o r.texts[1] \o <<")">>)
      [] expr._tag = "Lit" -> renderLiteral(this, expr.literal)
      [] expr._tag = "Parenthesized" ->
            LET e == Apply("renderExpr", this, expr.expr)
            IN  Done(e, <<"(">> \o e.text \o <<")">>)
      [] expr._tag = "SubQuery" ->
            LET q == Apply("renderQuery", this, expr.query)
            IN  Done(q, <<"(">> \o q.text \o <<")">>)
      [] expr._tag = "UnaryApp" ->
            LET e == Apply("renderExpr", this, expr.expr)
            IN  Done(e, <<expr.op>> \o e.text)
      [] expr._tag = "ExprExtension" -> renderCustomExpr(this, expr.val)

\* cte => `${name}${cols} AS (${query})`
renderCte(this, cte) ==
    LET r == Run(this, <<NonEmpty(<<" (">>, "renderIdent", cte.alias.columns, ", ", <<")">>),
                         Step("renderIdent", cte.alias.name),
                         Step("renderQuery", cte.query)>>)
    IN  Done(r, r.texts[2] \o r.texts[1] \o <<" AS (">> \o r.texts[3] \o <<")">>)

\* order => `${expr}${asc}${nullHandling}`; order and nullHandling are a string
\* (JsStr) or null
renderOrdering(this, order) ==
    LET asc == IF order.order = null THEN <<>> ELSE <<" ", order.order.v>>
        nullHandling == IF order.nullHandling = null THEN <<>>
                        ELSE <<" ", order.nullHandling.v>>
        e == Apply("renderExpr", this, order.expr)
    IN  Done(e, e.text \o asc \o nullHandling)

\* u => ` ${u.func}${all} ${select}`
renderUnion(this, u) ==
    LET all == IF u.all THEN <<" ALL">> ELSE <<>>
        select == Apply("renderSelect", this, u.select)
    IN  Done(select, <<" ", u.func>> \o all \o <<" ">> \o select.text)

renderQuery(this, query) ==
    LET r == Run(this,
                 <<NonEmpty(<<"WITH ">>, "renderCte", query.commonTableExprs, ", ", <<" ">>),
                   Optional(<<" LIMIT ">>, "renderExpr", query.limit, <<>>),
                   Optional(<<" OFFSET ">>, "renderExpr", query.offset, <<>>),
                   NonEmpty(<<" ORDER BY ">>, "renderOrdering", query.ordering, ", ", <<>>),
                   Step("renderSelect", query.selection),
                   NonEmpty(<<" ">>, "renderUnion", query.unions, " ", <<>>)>>)
        ctes == r.texts[1]
        limit == r.texts[2]
        offset == r.texts[3]
        ordering == r.texts[4]
        selection == r.texts[5]
        unions == r.texts[6]
    IN  Done(r, ctes \o selection \o unions \o ordering \o limit \o offset)

\* an aliased selection written without the AS keyword
renderSelection_WithoutAs(this, s) ==
    CASE s._tag = "AnonymousSelection" -> Apply("renderExpr", this, s.selection)
      [] s._tag = "AliasedSelection" ->
            LET r == Run(this, <<Step("renderExpr", s.selection), Step("renderIdent", s.alias)>>)
            IN  Done(r, r.texts[1] \o <<" ">> \o r.texts[2])

\* s => expr | `${expr} AS ${alias}`
renderSelection(this, s) ==
    CASE s._tag = "AnonymousSelection" -> Apply("renderExpr", this, s.selection)
      [] s._tag = "AliasedSelection" ->
            LET r == Run(this, <<Step("renderExpr", s.selection), Step("renderIdent", s.alias)>>)
            IN  Done(r, r.texts[1] \o <<" AS ">> \o r.texts[2])

\* join => ` ${kind} JOIN ${table} ON ${on}`
renderJoin(this, join) ==
    LET r == Run(this, <<Step("renderTable", join.table), Step("renderExpr", join.on)>>)
    IN  Done(r, <<" ", join.kind, " JOIN ">> \o r.texts[1] \o <<" ON ">> \o r.texts[2])

\* the `table` part of renderSelect
selectTable(this, select) ==
    IF select.from = null THEN Ok(<<>>, this.params)
    ELSE LET r == Run(this, <<Step("renderTable", select.from.table),
                              Mapped("renderJoin", select.from.joins, "")>>)
             initTable == r.texts[1]
             joins == r.texts[2]
         IN  Done(r, <<" FROM ">> \o initTable \o joins)

renderSelect(this, select) ==
    LET r == Run(this,
                 <<Mapped("renderSelection", select.selections, ", "),
                   Optional(<<" WHERE ">>, "renderExpr", select.where, <<>>),
                   NonEmpty(<<" GROUP BY">>, "renderExpr", select.groupBy, ", ", <<>>),
                   Optional(<<" HAVING">>, "renderExpr", select.having, <<>>),
                   Step("selectTable", select)>>)
        selections == r.texts[1]
        where == r.texts[2]
        groupBy == r.texts[3]
        having == r.texts[4]
        table == r.texts[5]
    IN  Done(r, <<"SELECT ">> \o selections \o table \o where \o groupBy \o having)

renderTable(this, table) ==
    CASE table._tag = "BasicTable" -> renderIdent(this, table.name)
      [] table._tag = "DerivedTable" ->
            LET r == Run(this, <<Step("renderQuery", table.subQuery),
                                 Step("renderIdent", table.alias)>>)
            IN  Done(r, <<"(">> \o r.texts[1] \o <<") AS ">> \o r.texts[2])
      [] table._tag = "FunctionTable" ->
            LET r == Run(this, <<Step("renderExpr", table.func),
                                 Step("renderIdent", table.alias)>>)
            IN  Done(r, <<"(">> \o r.texts[1] \o <<") AS ">> \o r.texts[2])
      [] table._tag = "TableExtension" -> renderCustomTable(this, table.val)

\* c => 'DEFAULT' | renderExpr(c)
renderCell(this, c) ==
    IF c._tag = "DefaultValue" THEN Ok(<<"DEFAULT">>, this.params)
    ELSE Apply("renderExpr", this, c)

\* r => `(${vals})`
renderRow(this, row) ==
    LET vals == MapJoin("renderCell", this, row, ", ")
    IN  Done(vals, <<"(">> \o vals.text \o <<")">>)

\* an insert without values rendered with an empty values part
insertValues_EmptyWhenNull(this, insert) ==
    IF insert.values = null
    THEN Ok(<<>>, this.params)
    ELSE CASE insert.values._tag = "DefaultValues" -> Ok(<<"DEFAULT VALUES">>, this.params)
           [] insert.values._tag = "ValuesConstructor" ->
                LET rows == MapJoin("renderRow", this, insert.values.values, ", ")
                IN  Done(rows, <<"VALUES ">> \o rows.text)
           [] insert.values._tag = "ValuesQuery" ->
                Apply("renderQuery", this, insert.values.query)

\* the `values` part of renderInsert
insertValues(this, insert) ==
    IF insert.values = null
    THEN Throw("Invalid Insert. Insert must have VALUES", this.params)
    ELSE CASE insert.values._tag = "DefaultValues" -> Ok(<<"DEFAULT VALUES">>, this.params)
           [] insert.values._tag = "ValuesConstructor" ->
                LET rows == MapJoin("renderRow", this, insert.values.values, ", ")
                IN  Done(rows, <<"VALUES ">> \o rows.text)
           [] insert.values._tag = "ValuesQuery" ->
                Apply("renderQuery", this, insert.values.query)

\* an insert that always writes the column list, empty or not
renderInsert_AlwaysColumns(this, insert) ==
    LET r == Run(this, <<Mapped("renderIdent", insert.columns, ", "),
                         Step("insertValues", insert),
                         Step("renderIdent", insert.table)>>)
        columns == <<" (">> \o r.texts[1] \o <<")">>
        values == r.texts[2]
    IN  Done(r, <<"INSERT INTO ">> \o r.texts[3] \o columns \o <<" ">> \o values)

renderInsert(this, insert) ==
    LET r == Run(this, <<NonEmpty(<<" (">>, "renderIdent", insert.columns, ", ", <<")">>),
                         Step("insertValues", insert),
                         Step("renderIdent", insert.table)>>)
        columns == r.texts[1]
        values == r.texts[2]
    IN  Done(r, <<"INSERT INTO ">> \o r.texts[3] \o columns \o <<" ">> \o values)

\* ([name, value]) => `${name} = DEFAULT` | `${name} = ${value}`
renderAssignment(this, a) ==
    LET r == Run(this, <<Step("renderIdent", a[1]), Step("renderCell", a[2])>>)
    IN  Done(r, r.texts[1] \o <<" = ">> \o r.texts[2])

\* an update that leaves out its WHERE clause
renderUpdate_WithoutWhere(this, update) ==
    LET r == Run(this, <<Mapped("renderAssignment", update.assignments, ", "),
                         Optional(<<" WHERE ">>, "renderExpr", update.where, <<>>),
                         Step("renderIdent", update.table)>>)
        sets == r.texts[1]
    IN  Done(r, <<"UPDATE ">> \o r.texts[3] \o <<" SET ">> \o sets)

renderUpdate(this, update) ==
    LET r == Run(this, <<Mapped("renderAssignment", update.assignments, ", "),
                         Optional(<<" WHERE ">>, "renderExpr", update.where, <<>>),
                         Step("renderIdent", update.table)>>)
        sets == r.texts[1]
        where == r.texts[2]
    IN  Done(r, <<"UPDATE ">> \o r.texts[3] \o <<" SET ">> \o sets \o where)

renderUpdatePositioned(this, update) ==
    LET r == Run(this, <<Mapped("renderAssignment", update.assignments, ", "),
                         Step("renderIdent", update.table),
                         Step("renderIdent", update.cursor)>>)
        sets == r.texts[1]
    IN  Done(r, <<"UPDATE ">> \o r.texts[2] \o <<" SET ">> \o sets
                \o <<" WHERE CURRENT OF ">> \o r.texts[3])

renderDelete(this, del) ==
    LET r == Run(this, <<Optional(<<" WHERE ">>, "renderExpr", del.where, <<>>),
                         Step("renderIdent", del.table)>>)
        where == r.texts[1]
    IN  Done(r, <<"DELETE FROM ">> \o r.texts[2] \o where)

renderDeletePositioned(this, del) ==
    LET r == Run(this, <<Step("renderIdent", del.table), Step("renderIdent", del.cursor)>>)
    IN  Done(r, <<"DELETE FROM ">> \o r.texts[1] \o <<" WHERE CURRENT OF ">> \o r.texts[2])

\* a check time that looks at deferrable only
renderConstraintCheckTime_DeferrableOnly(this, cct) ==
    Ok(<<IF cct.deferrable THEN "INITIALLY DEFERRED DEFERRABLE"
         ELSE "INITIALLY IMMEDIATE NOT DEFERRABLE">>, this.params)

renderConstraintCheckTime(this, cct) ==
    Ok(<<IF cct.deferrable /\ cct.initiallyDeferred THEN "INITIALLY DEFERRED DEFERRABLE"
         ELSE IF cct.deferrable THEN "INITIALLY IMMEDIATE DEFERRABLE"
         ELSE IF cct.initiallyDeferred THEN "INITIALLY DEFERRED NOT DEFERRABLE"
         ELSE "INITIALLY IMMEDIATE NOT DEFERRABLE">>, this.params)

\* renderDomainConstraint(name, expr, attrs), its arguments as the record c
renderDomainConstraint(this, c) ==
    LET r == Run(this, <<Optional(<<>>, "renderIdent", c.name, <<" ">>),
                         Step("renderQuery", c.expr),
                         Optional(<<" ">>, "renderConstraintCheckTime", c.attrs, <<>>)>>)
        namePart == r.texts[1]
        def == r.texts[2]
        attributes == r.texts[3]
    IN  Done(r, namePart \o def \o attributes)

\* ` (${this.renderLiteral(opt.precision)})` of CURRENT_TIME and CURRENT_TIMESTAMP
timePrecision(this, opt) ==
    Apply("optional", this, Optional(<<" (">>, "renderLiteral", opt.precision, <<")">>).x)

renderDefaultOption(this, opt) ==
    LET val ==
            CASE opt._tag = "Lit" -> Apply("renderLiteral", this, opt.literal)
              [] opt._tag = "CurrentDateDefault" -> Ok(<<"CURRENT_DATE">>, this.params)
              [] opt._tag \in {"CurrentTime", "CurrentTimeStamp"} -> timePrecision(this, opt)
              [] opt._tag = "UserDefault" -> Ok(<<"USER">>, this.params)
              [] opt._tag = "CurrentUserDefault" -> Ok(<<"CURRENT_USER">>, this.params)
              [] opt._tag = "SessionUserDefault" -> Ok(<<"SESSION_USER">>, this.params)
              [] opt._tag = "SystemUserDefault" -> Ok(<<"SYSTEM_USER">>, this.params)
              [] opt._tag = "NullDefault" -> Ok(<<"NULL">>, this.params)
        keyword ==
            CASE opt._tag = "CurrentTime" -> <<"CURRENT_TIME">>
              [] opt._tag = "CurrentTimeStamp" -> <<"CURRENT_TIMESTAMP">>
              [] OTHER -> <<>>
    IN  Done(val, <<"DEFAULT ">> \o keyword \o val.text)

\* the `constraint` part of renderDomainDefinition
domainConstraint(this, def) ==
    IF property(def, "constraintExpr") = null THEN Ok(<<>>, this.params)
    ELSE LET r == Apply("renderDomainConstraint", this,
                        [name |-> property(def, "constraintName"),
                         expr |-> property(def, "constraintExpr"),
                         attrs |-> property(def, "constraintAttributes")])
         IN  Done(r, <<" ">> \o r.text)

renderDomainDefinition(this, def) ==
    LET r == Run(this, <<Optional(<<" ">>, "renderDefaultOption", def.default, <<>>),
                         Step("domainConstraint", def),
                         Optional(<<" COLLATE ">>, "renderIdent", def.collation, <<>>),
                         Step("renderIdent", def.name),
                         Step("renderDataType", def.dataType)>>)
        defaultOption == r.texts[1]
        constraint == r.texts[2]
        collation == r.texts[3]
    IN  Done(r, <<"CREATE DOMAIN ">> \o r.texts[4] \o <<" AS ">> \o r.texts[5]
                \o defaultOption \o constraint \o collation)

renderUniqueConstraint(this, constraint) ==
    LET typ == IF constraint.primaryKey THEN "PRIMARY KEY" ELSE " UNIQUE"
        columns == MapJoin("renderIdent", this, constraint.columns, ", ")
    IN  Done(columns, <<" ", typ, " (">> \o columns.text \o <<")">>)

\* renderAction of renderReferenceConstraint
renderAction(action) ==
    CASE action = "Cascade" -> "CASCADE"
      [] action = "SetNull" -> "SET NULL"
      [] action = "SetDefault" -> "SET DEFAULT"
      [] action = "NoAction" -> "NO ACTION"

renderReferenceConstraint(this, def) ==
    LET r == Run(this, <<Optional(<<" (">>, "mapJoin",
                                  IF def.columns = null THEN null
                                  ELSE Mapped("renderIdent", def.columns.items, ", ").x, <<")">>),
                         Step("renderIdent", def.table)>>)
        columns == r.texts[1]
        match == CASE def.matchType = "Regular" -> <<>>
                   [] def.matchType = "Full" -> <<" FULL">>
                   [] def.matchType = "Partial" -> <<" PARTIAL">>
        onUpdate == IF def.onUpdate # null THEN <<" ON UPDATE", renderAction(def.onUpdate.v)>>
                    ELSE <<>>
        onDelete == IF def.onDelete # null THEN <<" ON DELETE", renderAction(def.onDelete.v)>>
                    ELSE <<>>
    IN  Done(r, <<"REFERENCES ">> \o r.texts[2] \o columns \o match \o onUpdate \o onDelete)

renderCheckConstraint(this, def) ==
    LET search == Apply("renderQuery", this, def.search)
    IN  Done(search, <<"CHECK ">> \o search.text)

\* the constraint of a column or table constraint definition
constraintBody(this, constraint) ==
    CASE constraint._tag = "ColumnNotNull" -> Ok(<<" NOT NULL">>, this.params)
      [] constraint._tag = "UniqueConstraint" -> renderUniqueConstraint(this, constraint)
      [] constraint._tag = "ReferenceConstraint" -> renderReferenceConstraint(this, constraint)
      [] constraint._tag = "CheckConstraint" -> renderCheckConstraint(this, constraint)

renderColumnConstraint(this, def) ==
    LET r == Run(this, <<Step("constraintBody", def.constraint),
                         Optional(<<>>, "renderIdent", def.name, <<" ">>),
                         Optional(<<" ">>, "renderConstraintCheckTime", def.attributes, <<>>)>>)
        cstr == r.texts[1]
        namePart == r.texts[2]
        attributes == r.texts[3]
    IN  Done(r, namePart \o cstr \o attributes)

renderTableConstraint(this, def) ==
    LET r == Run(this, <<Optional(<<>>, "renderIdent", def.name, <<" ">>),
                         Step("constraintBody", def.constraint),
                         Optional(<<" ">>, "renderConstraintCheckTime", def.checkTime, <<>>)>>)
        namePart == r.texts[1]
        constraint == r.texts[2]
        attributes == r.texts[3]
    IN  Done(r, namePart \o constraint \o attributes)

\* the `typ` part of renderColumnDefinition
columnType(this, type) ==
    IF type._tag = "Ident" THEN renderIdent(this, type) ELSE renderDataType(this, type)

renderColumnDefinition(this, def) ==
    LET r == Run(this, <<Step("columnType", def.type),
                         Optional(<<" ">>, "renderDefaultOption", def.default, <<>>),
                         NonEmpty(<<" ">>, "renderColumnConstraint", def.constraints, " ", <<>>),
                         Optional(<<" COLLATE ">>, "renderIdent", def.collation, <<>>),
                         Step("renderIdent", def.name)>>)
        typ == r.texts[1]
        defaultOption == r.texts[2]
        constraints == r.texts[3]
        collation == r.texts[4]
    IN  Done(r, r.texts[5] \o <<" ">> \o typ \o defaultOption \o constraints \o collation)

renderTableDefinition(this, def) ==
    LET locality == CASE def.mode = "GlobalTemp" -> <<" GLOBAL TEMPORARY">>
                      [] def.mode = "LocalTemp" -> <<" Local TEMPORARY">>
                      [] OTHER -> <<>>
        n == Len(def.columns) + Len(def.constraints)
        r == Run(this, [i \in 1..Len(def.columns) |-> Step("renderColumnDefinition", def.columns[i])]
                       \o [i \in 1..Len(def.constraints) |->
                              Step("renderTableConstraint", def.constraints[i])]
                       \o <<Step("renderIdent", def.name)>>)
        onCommit == IF def.onCommit = JsStr("Delete") THEN <<" ON COMMIT DELETE ROWS">>
                    ELSE IF def.onCommit = JsStr("Preserve") THEN <<" ON COMMIT PRESERVE ROWS">>
                    ELSE <<>>
    IN  IF Failed(r) THEN Throw(r.error, r.params)
        ELSE Ok(<<"CREATE">> \o locality \o <<" TABLE ">> \o r.texts[n + 1] \o <<" (">>
                \o JoinTexts(SubSeq(r.texts, 1, n), ", ") \o <<")">> \o onCommit, r.params)

\* ` ${def.columns.map(this.renderIdent)}`: the array as a string, joined by ','
viewColumns(this, columns) ==
    LET r == MapJoin("renderIdent", this, columns.items, ",") IN Done(r, <<" ">> \o r.text)

renderViewDefinition(this, def) ==
    LET r == Run(this, <<Optional(<<>>, "viewColumns", def.columns, <<>>),
                         Step("renderQuery", def.query),
                         Step("renderIdent", def.name)>>)
        columns == r.texts[1]
        query == r.texts[2]
        checkOption == IF def.checkOption = JsStr("Cascaded") THEN <<" WITH CASCADED CHECK OPTION">>
                       ELSE IF def.checkOption = JsStr("Local") THEN <<" WITH LOCAL CHECK OPTION">>
                       ELSE <<>>
    IN  Done(r, <<"CREATE VIEW ">> \o r.texts[3] \o columns \o <<" AS ">> \o query \o checkOption)

\* `this` inside a method passed as a callback, xs.map(this.method): undefined.
\* The buffer is kept only so that the caller's buffer is threaded through.
Unbound(this) == [params |-> this.params]
IsInstance(this) == "_paramsMode" \in DOMAIN this

\* ' (' + def.columns.map(this.renderIdent).join(', ') + ')' after the keyword
privilegeColumns(this, keyword, columns) ==
    IF columns = null THEN Ok(<<keyword>>, this.params)
    ELSE IF ~IsInstance(this)
    THEN Throw("TypeError: Cannot read properties of undefined (reading 'renderIdent')",
               this.params)
    ELSE LET r == MapJoin("renderIdent", this, columns.items, ", ")
         IN  Done(r, <<keyword, " (">> \o r.text \o <<")">>)

renderPrivilege(this, def) ==
    CASE def._tag = "SelectPrivilege" -> Ok(<<"SELECT">>, this.params)
      [] def._tag = "DeletePrivilege" -> Ok(<<"DELETE">>, this.params)
      [] def._tag = "InsertPrivilege" -> privilegeColumns(this, "INSERT", def.columns)
      [] def._tag = "UpdatePrivilege" -> privilegeColumns(this, "UPDATE", def.columns)
      [] def._tag = "ReferencePrivilege" -> privilegeColumns(this, "REFERENCES", def.columns)
      [] def._tag = "UsagePrivilege" -> Ok(<<"USAGE">>, this.params)

renderGrantStatement(this, def) ==
    LET objectType == CASE def.objectType = "Table" -> "TABLE "
                        [] def.objectType = "Domain" -> "DOMAIN "
                        [] def.objectType = "Collation" -> "COLLATION "
                        [] def.objectType = "CharacterSet" -> "CHARACTER SET "
                        [] def.objectType = "Translation" -> "TRANSLATION "
                        [] OTHER -> def.objectType
        r == Run(this, <<Step("renderIdent", def.objectName),
                         Optional(<<>>, "mapJoin",
                                  IF def.privileges = null THEN null
                                  ELSE Mapped("this.renderPrivilege", def.privileges.items, ", ").x,
                                  <<>>),
                         Optional(<<>>, "mapJoin",
                                  IF def.grantees = null THEN null
                                  ELSE Mapped("renderIdent", def.grantees.items, ", ").x, <<>>)>>)
        objectName == <<objectType>> \o r.texts[1]
        privileges == IF def.privileges = null THEN <<"ALL PRIVILEGES">> ELSE r.texts[2]
        grantees == IF def.grantees = null THEN <<"PUBLIC">> ELSE r.texts[3]
        option == IF def.grantOption THEN <<" WITH GRANT OPTION">> ELSE <<>>
    IN  Done(r, <<"GRANT ">> \o privileges \o <<" ON ">> \o objectName \o <<" TO ">>
                \o grantees \o option)

renderAssertionDefinition(this, def) ==
    LET r == Run(this, <<Optional(<<" ">>, "renderConstraintCheckTime", def.checkTime, <<>>),
                         Step("renderIdent", def.name),
                         Step("renderQuery", def.search)>>)
        attributes == r.texts[1]
    IN  Done(r, <<"CREATE ASSERTION ">> \o r.texts[2] \o <<" CHECK (">> \o r.texts[3]
                \o <<")">> \o attributes)

\* String(this.renderDomainDefinition): the source text of the method
FunctionSource == "renderDomainDefinition(def) { ... }"

\* def => this.renderDomainDefinition | null, as Array.prototype.join writes it
schemaElement(def) == IF def._tag = "DomainDefinition" THEN <<FunctionSource>> ELSE <<>>

renderCreateSchema(this, schema) ==
    LET r == Run(this, <<Optional(<<>>, "renderIdent", schema.catalog, <<".">>),
                         Optional(<<>>, "renderIdent", schema.name, <<" ">>),
                         Optional(<<"AUTHORIZATION ">>, "renderIdent", schema.authorization,
                                  <<" ">>),
                         Optional(<<"DEFAULT CHARACTER SET ">>, "renderIdent",
                                  schema.characterSet, <<" ">>)>>)
        name == r.texts[1] \o r.texts[2]
        auth == r.texts[3]
        charSet == r.texts[4]
        joined == JoinTexts([i \in 1..Len(schema.definitions) |->
                                schemaElement(schema.definitions[i])], " ")
        defs == IF Flatten(joined) # "" THEN <<" ">> \o joined ELSE joined
    IN  Done(r, <<"CREATE SCHEMA ">> \o name \o auth \o charSet \o defs)

renderStatement(this, statement) ==
    CASE statement._tag = "Query" -> renderQuery(this, statement)
      [] statement._tag = "Insert" -> renderInsert(this, statement)
      [] statement._tag = "Update" -> renderUpdate(this, statement)
      [] statement._tag = "Delete" -> renderDelete(this, statement)
      [] statement._tag = "UpdatePositioned" -> renderUpdatePositioned(this, statement)
      [] statement._tag = "DeletePositioned" -> renderDeletePositioned(this, statement)
      [] statement._tag = "CreateSchema" -> renderCreateSchema(this, statement)
      [] statement._tag = "TableDefinition" -> renderTableDefinition(this, statement)
      [] statement._tag = "ViewDefinition" -> renderViewDefinition(this, statement)
      [] statement._tag = "GrantStatement" -> renderGrantStatement(this, statement)
      [] statement._tag = "DomainDefinition" -> renderDomainDefinition(this, statement)
      [] statement._tag = "AssertionDefinition" -> renderAssertionDefinition(this, statement)
      [] OTHER -> Return(statement, this.params)

\* this[f](x): a call of the method, callback or part named f
Apply(f, this, x) ==
    CASE f = "optional" ->
            IF x.x = null THEN Ok(<<>>, this.params)
            ELSE LET r == Apply(x.g, this, x.x) IN Done(r, x.pre \o r.text \o x.post)
      [] f = "mapJoin" -> MapJoin(x.g, this, x.xs, x.sep)
      [] f = "nonEmpty" ->
            IF Len(x.xs) = 0 THEN Ok(<<>>, this.params)
            ELSE LET r == MapJoin(x.g, this, x.xs, x.sep) IN Done(r, x.pre \o r.text \o x.post)
      [] f = "renderIdent" -> renderIdent(this, x)
      [] f = "renderLiteral" -> renderLiteral(this, x)
      [] f = "renderDataType" -> renderDataType(this, x)
      [] f = "renderExpr" -> renderExpr(this, x)
      [] f = "renderQuery" -> renderQuery(this, x)
      [] f = "renderSelect" -> renderSelect(this, x)
      [] f = "renderTable" -> renderTable(this, x)
      [] f = "renderStatement" -> renderStatement(this, x)
      [] f = "renderCase" -> renderCase(this, x)
      [] f = "renderCte" -> renderCte(this, x)
      [] f = "renderOrdering" -> renderOrdering(this, x)
      [] f = "renderUnion" -> renderUnion(this, x)
      [] f = "renderSelection" -> renderSelection(this, x)
      [] f = "renderJoin" -> renderJoin(this, x)
      [] f = "selectTable" -> selectTable(this, x)
      [] f = "renderCell" -> renderCell(this, x)
      [] f = "renderRow" -> renderRow(this, x)
      [] f = "insertValues" -> insertValues(this, x)
      [] f = "renderAssignment" -> renderAssignment(this, x)
      [] f = "renderConstraintCheckTime" -> renderConstraintCheckTime(this, x)
      [] f = "renderDomainConstraint" -> renderDomainConstraint(this, x)
      [] f = "renderDefaultOption" -> renderDefaultOption(this, x)
      [] f = "domainConstraint" -> domainConstraint(this, x)
      [] f = "constraintBody" -> constraintBody(this, x)
      [] f = "renderReferenceConstraint" -> renderReferenceConstraint(this, x)
      [] f = "renderColumnConstraint" -> renderColumnConstraint(this, x)
      [] f = "renderTableConstraint" -> renderTableConstraint(this, x)
      [] f = "columnType" -> columnType(this, x)
      [] f = "renderColumnDefinition" -> renderColumnDefinition(this, x)
      [] f = "viewColumns" -> viewColumns(this, x)
      [] f = "this.renderPrivilege" -> renderPrivilege(Unbound(this), x)
      [] f = "renderPrivilege" -> renderPrivilege(this, x)

----------------------------------------------------------------------------
(* AST nodes: tagged records with the fields the renderer reads *)

Ident(n) == [_tag |-> "Ident", name |-> n]
Wildcard == [_tag |-> "Wildcard"]
QualifiedWildcard(qs) == [_tag |-> "QualifiedWildcard", qualifiers |-> qs]
CompoundIdentifier(ids) == [_tag |-> "CompoundIdentifier", idChain |-> ids]
Between(e, neg, lo, hi) == [_tag |-> "Between", expr |-> e, negated |-> neg, low |-> lo, high |-> hi]
BinaryApp(l, op, r) == [_tag |-> "BinaryApp", left |-> l, op |-> op, right |-> r]
Case(e, cs, el) == [_tag |-> "Case", expr |-> e, cases |-> cs, elseCase |-> el]
Cast(e, dt) == [_tag |-> "Cast", expr |-> e, dataType |-> dt]
Collate(e, c) == [_tag |-> "Collate", expr |-> e, collation |-> c]
Exists(q) == [_tag |-> "Exists", subQuery |-> q]
Extract(f, e) == [_tag |-> "Extract", field |-> f, source |-> e]
FunctionApp(n, as) == [_tag |-> "FunctionApp", name |-> n, args |-> as]
IsNull(e, neg) == [_tag |-> "IsNull", expr |-> e, negated |-> neg]
InList(e, neg, l) == [_tag |-> "InList", expr |-> e, negated |-> neg, list |-> l]
InSubQuery(e, neg, q) == [_tag |-> "InSubQuery", expr |-> e, negated |-> neg, subQuery |-> q]
Lit(l) == [_tag |-> "Lit", literal |-> l]
Parenthesized(e) == [_tag |-> "Parenthesized", expr |-> e]
SubQuery(q) == [_tag |-> "SubQuery", query |-> q]
UnaryApp(op, e) == [_tag |-> "UnaryApp", op |-> op, expr |-> e]
ExprExtension(v) == [_tag |-> "ExprExtension", val |-> v]

NumLit(v) == [_tag |-> "NumLit", val |-> v]
StringLit(s) == [_tag |-> "StringLit", val |-> JsStr(s)]
BoolLit(b) == [_tag |-> "BoolLit", val |-> JsBool(b)]
NullLit == [_tag |-> "NullLit"]
DateLit(d) == [_tag |-> "DateLit", val |-> d]
CustomLit(v) == [_tag |-> "CustomLit", val |-> v]

BasicTable(n) == [_tag |-> "BasicTable", name |-> Ident(n)]
DerivedTable(q, a) == [_tag |-> "DerivedTable", subQuery |-> q, alias |-> Ident(a)]
FunctionTable(f, a) == [_tag |-> "FunctionTable", func |-> f, alias |-> Ident(a)]
TableExtension(v) == [_tag |-> "TableExtension", val |-> v]
Join(k, t, on) == [_tag |-> "Join", kind |-> k, table |-> t, on |-> on]
JoinedTable(t, js) == [_tag |-> "JoinedTable", table |-> t, joins |-> js]
AnonymousSelection(e) == [_tag |-> "AnonymousSelection", selection |-> e]
AliasedSelection(e, a) == [_tag |-> "AliasedSelection", selection |-> e, alias |-> Ident(a)]
Select(sels, from, where, groupBy, having) ==
    [_tag |-> "Select", selections |-> sels, from |-> from, where |-> where,
     groupBy |-> groupBy, having |-> having]
TableAlias(n, cols) == [_tag |-> "TableAlias", name |-> Ident(n), columns |-> cols]
CommonTableExpr(alias, q) == [_tag |-> "CommonTableExpr", alias |-> alias, query |-> q]
SetOp(func, all, sel) == [_tag |-> "SetOp", func |-> func, all |-> all, select |-> sel]
OrderingExpr(e, order, nullHandling) ==
    [_tag |-> "OrderingExpr", expr |-> e, order |-> order, nullHandling |-> nullHandling]
Query(ctes, sel, unions, ordering, limit, offset) ==
    [_tag |-> "Query", commonTableExprs |-> ctes, selection |-> sel, unions |-> unions,
     ordering |-> ordering, limit |-> limit, offset |-> offset]

DefaultValue == [_tag |-> "DefaultValue"]
DefaultValues == [_tag |-> "DefaultValues"]
ValuesConstructor(rows) == [_tag |-> "ValuesConstructor", values |-> rows]
ValuesQuery(q) == [_tag |-> "ValuesQuery", query |-> q]
Insert(t, cols, vals) == [_tag |-> "Insert", table |-> Ident(t), columns |-> cols, values |-> vals]
Update(t, as, where) == [_tag |-> "Update", table |-> Ident(t), assignments |-> as, where |-> where]
UpdatePositioned(t, as, c) ==
    [_tag |-> "UpdatePositioned", table |-> Ident(t), assignments |-> as, cursor |-> Ident(c)]
Delete(t, where) == [_tag |-> "Delete", table |-> Ident(t), where |-> where]
DeletePositioned(t, c) == [_tag |-> "DeletePositioned", table |-> Ident(t), cursor |-> Ident(c)]

\* An array in a field that may be null instead
Array(items) == [_tag |-> "Array", items |-> items]

ConstraintCheckTime(deferrable, initiallyDeferred) ==
    [_tag |-> "ConstraintCheckTime", deferrable |-> deferrable,
     initiallyDeferred |-> initiallyDeferred]
DataType(t) == [_tag |-> t]
NullDefault == [_tag |-> "NullDefault"]
CurrentTime(precision) == [_tag |-> "CurrentTime", precision |-> precision]
ColumnNotNull == [_tag |-> "ColumnNotNull"]
UniqueConstraint(pk, cols) == [_tag |-> "UniqueConstraint", primaryKey |-> pk, columns |-> cols]
ReferenceConstraint(t, cols, m, onUpdate, onDelete) ==
    [_tag |-> "ReferenceConstraint", table |-> Ident(t), columns |-> cols, matchType |-> m,
     onUpdate |-> onUpdate, onDelete |-> onDelete]
CheckConstraint(q) == [_tag |-> "CheckConstraint", search |-> q]
ColumnConstraintDefinition(n, c, attrs) ==
    [_tag |-> "ColumnConstraintDefinition", name |-> n, constraint |-> c, attributes |-> attrs]
TableConstraint(n, c, checkTime) ==
    [_tag |-> "TableConstraint", name |-> n, constraint |-> c, checkTime |-> checkTime]
ColumnDefinition(n, type, default, constraints, collation) ==
    [_tag |-> "ColumnDefinition", name |-> Ident(n), type |-> type, default |-> default,
     constraints |-> constraints, collation |-> collation, extensions |-> null]
TableDefinition(n, mode, columns, constraints, onCommit) ==
    [_tag |-> "TableDefinition", name |-> Ident(n), mode |-> mode, columns |-> columns,
     constraints |-> constraints, onCommit |-> onCommit, extensions |-> null]
ViewDefinition(n, columns, q, checkOption) ==
    [_tag |-> "ViewDefinition", name |-> Ident(n), columns |-> columns, query |-> q,
     checkOption |-> checkOption]
SelectPrivilege == [_tag |-> "SelectPrivilege"]
DeletePrivilege == [_tag |-> "DeletePrivilege"]
UsagePrivilege == [_tag |-> "UsagePrivilege"]
InsertPrivilege(cols) == [_tag |-> "InsertPrivilege", columns |-> cols]
UpdatePrivilege(cols) == [_tag |-> "UpdatePrivilege", columns |-> cols]
ReferencePrivilege(cols) == [_tag |-> "ReferencePrivilege", columns |-> cols]
GrantStatement(privileges, objectType, objectName, grantees, grantOption) ==
    [_tag |-> "GrantStatement", privileges |-> privileges, objectName |-> Ident(objectName),
     objectType |-> objectType, grantees |-> grantees, grantOption |-> grantOption]
RevokePrivilege(privileges, objectType, objectName, grantees, grantOption, behavior) ==
    [_tag |-> "RevokePrivilege", privileges |-> privileges, objectName |-> Ident(objectName),
     objectType |-> objectType, grantees |-> grantees, grantOption |-> grantOption,
     behavior |-> behavior]
DomainDefinition(n, dataType, default, cName, cExpr, cAttrs, collation) ==
    [_tag |-> "DomainDefinition", name |-> Ident(n), dataType |-> dataType, default |-> default,
     constraintName |-> cName, constraintExpr |-> cExpr, constraintAttributes |-> cAttrs,
     collation |-> collation]
AssertionDefinition(n, search, checkTime) ==
    [_tag |-> "AssertionDefinition", name |-> Ident(n), search |-> search,
     checkTime |-> checkTime]
CreateSchema(n, catalog, authorization, characterSet, definitions) ==
    [_tag |-> "CreateSchema", name |-> n, catalog |-> catalog, authorization |-> authorization,
     characterSet |-> characterSet, definitions |-> definitions]
DropTable(n, behavior) == [_tag |-> "DropTable", name |-> Ident(n), behavior |-> behavior]
DropView(n, behavior) == [_tag |-> "DropView", name |-> Ident(n), behavior |-> behavior]
DropDomain(n, behavior) == [_tag |-> "DropDomain", name |-> Ident(n), behavior |-> behavior]
DropAssertion(n) == [_tag |-> "DropAssertion", name |-> Ident(n)]

----------------------------------------------------------------------------
(* The trees rendered: the employee/department schema of src/test/insert.ts *)

Lit5 == Lit(NumLit(JsNum(5)))
LitCharlotte == Lit(StringLit("Charlotte"))
Lit5000 == Lit(NumLit(JsNum(5000)))
Lit55 == Lit(NumLit(JsNum(55)))

LiteralU ==
    {NumLit(JsNum(5)), NumLit(JsNum(5000)), NumLit(JsNum(55)), NumLit(JsNum(-7)),
     NumLit(JsStr("12345678901234567890.5")),
     StringLit("Charlotte"), StringLit("O'Brien"), StringLit(""),
     BoolLit(TRUE), BoolLit(FALSE), NullLit,
     DateLit(JsDate(2020, 1, 5)), DateLit(JsDate(987, 11, 23)),
     CustomLit(JsObj("point"))}

IdentU == {Ident("employee"), Ident("id"), Ident("a\"b"), Ident("select"), Ident("")}

EmployeeId == CompoundIdentifier(<<Ident("employee"), Ident("id")>>)
DepartmentId == CompoundIdentifier(<<Ident("department"), Ident("id")>>)
IdEq5 == BinaryApp(Ident("id"), "=", Lit5)
OnDept55 == BinaryApp(DepartmentId, "=", Lit55)
OnIds == BinaryApp(DepartmentId, "=", EmployeeId)

From(t) == JoinedTable(BasicTable(t), <<>>)
SelectStar == Select(<<AnonymousSelection(Wildcard)>>, From("employee"), null, <<>>, null)
SelectLit == Select(<<AnonymousSelection(LitCharlotte)>>, null, null, <<>>, null)
QueryOf(sel) == Query(<<>>, sel, <<>>, <<>>, null, null)

ExprU ==
    IdentU \cup {Lit5, LitCharlotte, Lit(NullLit), Lit(CustomLit(JsObj("point")))} \cup
    {Wildcard, QualifiedWildcard(<<>>), QualifiedWildcard(<<Ident("employee")>>),
     EmployeeId, CompoundIdentifier(<<Ident("a\"b"), Ident("select"), Ident("id")>>),
     IdEq5, BinaryApp(Lit5, "<", Lit55),
     Between(Lit5, FALSE, Lit55, Lit5000), Between(Ident("id"), TRUE, Lit5, Lit55),
     Case(null, <<[condition |-> IdEq5, result |-> LitCharlotte]>>, null),
     Case(Ident("id"), <<[condition |-> Lit5, result |-> Lit55],
                         [condition |-> Lit55, result |-> Lit5]>>, Lit5000),
     Cast(Lit5, "INTEGER"), Collate(Ident("name"), Ident("de_DE")),
     Exists(QueryOf(SelectStar)), Extract("YEAR", Ident("hired")),
     FunctionApp(Ident("COUNT"), <<Wildcard>>), FunctionApp(Ident("COALESCE"), <<Lit5, Lit55>>),
     IsNull(Ident("name"), FALSE), IsNull(Lit5, TRUE),
     InList(Lit5, FALSE, <<Lit55, Lit5000>>), InList(Ident("id"), TRUE, <<Lit5>>),
     InSubQuery(Lit5, FALSE, QueryOf(SelectLit)), InSubQuery(Ident("id"), TRUE, QueryOf(SelectStar)),
     Parenthesized(IdEq5), SubQuery(QueryOf(SelectLit)), UnaryApp("-", Lit5),
     ExprExtension("custom"), BinaryApp(Lit5, "+", ExprExtension("custom"))}

SelectionsU ==
    {<<>>,
     <<AnonymousSelection(Ident("id")), AliasedSelection(LitCharlotte, "who"),
       AliasedSelection(EmployeeId, "a\"b")>>}

FromU ==
    {null, From("employee"),
     JoinedTable(BasicTable("employee"), <<Join("INNER", BasicTable("department"), OnDept55)>>),
     JoinedTable(DerivedTable(QueryOf(SelectLit), "t"),
                 <<Join("LEFT OUTER", BasicTable("department"), OnIds),
                   Join("FULL OUTER", FunctionTable(FunctionApp(Ident("f"), <<Lit5>>), "g"),
                        OnDept55)>>)}

SelectU ==
    {Select(s, f, w, <<>>, null) : s \in SelectionsU, f \in FromU, w \in {null, IdEq5}}
    \cup {Select(<<AnonymousSelection(Ident("id"))>>, From("employee"), IdEq5,
                 <<Ident("id"), Lit5>>, BinaryApp(Ident("id"), ">", Lit55)),
          Select(<<AnonymousSelection(Lit5)>>, From("employee"), null, <<Ident("id")>>, null),
          Select(<<AnonymousSelection(Wildcard)>>,
                 JoinedTable(BasicTable("employee"),
                             <<Join("RIGHT OUTER", TableExtension("custom"), OnIds)>>),
                 null, <<>>, null),
          SelectStar, SelectLit}

SelectWho ==
    Select(<<AliasedSelection(LitCharlotte, "who")>>,
           JoinedTable(BasicTable("employee"), <<Join("INNER", BasicTable("department"), OnDept55)>>),
           IdEq5, <<>>, null)

CtesU ==
    {<<>>, <<CommonTableExpr(TableAlias("recent", <<>>), QueryOf(SelectLit))>>,
     <<CommonTableExpr(TableAlias("a\"b", <<Ident("x"), Ident("y")>>), QueryOf(SelectStar)),
       CommonTableExpr(TableAlias("other", <<>>), QueryOf(SelectStar))>>}

UnionsU ==
    {<<>>, <<SetOp("UNION", FALSE, SelectStar)>>,
     <<SetOp("UNION", TRUE, SelectLit), SetOp("INTERSECT", FALSE, SelectStar)>>}

NoTail == [ordering |-> <<>>, limit |-> null, offset |-> null]

TailU ==
    {NoTail,
     [ordering |-> <<OrderingExpr(Ident("id"), null, null)>>, limit |-> null, offset |-> null],
     [ordering |-> <<>>, limit |-> Lit5, offset |-> null],
     [ordering |-> <<>>, limit |-> null, offset |-> Lit55],
     [ordering |-> <<OrderingExpr(Lit5, JsStr("DESC"), JsStr("NULLS LAST")),
                    OrderingExpr(Ident("id"), JsStr("ASC"), null)>>,
      limit |-> Lit5000, offset |-> Lit55]}

QueryU ==
    {Query(c, SelectWho, u, <<>>, null, null) : c \in CtesU, u \in UnionsU}
    \cup {Query(<<>>, s, <<>>, t.ordering, t.limit, t.offset) :
            s \in {SelectStar, SelectWho}, t \in TailU}
    \cup {Query(c, SelectStar, c2, t.ordering, t.limit, t.offset) :
            c \in CtesU \ {<<>>}, c2 \in UnionsU \ {<<>>}, t \in TailU \ {NoTail}}

EmployeeColumns == <<Ident("id"), Ident("name"), Ident("salary"), Ident("department_id")>>
CharlotteRow == <<Lit5, LitCharlotte, Lit5000, Lit55>>

ValuesU ==
    {null, DefaultValues, ValuesQuery(QueryOf(SelectStar)), ValuesQuery(QueryOf(SelectWho)),
     ValuesConstructor(<<CharlotteRow>>),
     ValuesConstructor(<<CharlotteRow, <<Lit55, DefaultValue, Lit(NullLit), Lit5>>>>),
     ValuesConstructor(<<<<Lit55, LitCharlotte>>, <<Lit5, Lit(NullLit)>>, <<Lit5000, Lit5>>>>),
     ValuesConstructor(<<<<DefaultValue, BinaryApp(Lit5, "+", Lit55)>>>>)}

InsertU ==
    {Insert("employee", c, v) : c \in {<<>>, EmployeeColumns}, v \in ValuesU}
    \cup {Insert("a\"b", <<Ident("select"), Ident("")>>, DefaultValues)}

\* a custom literal two levels below the statement
DeleteCustom ==
    Delete("employee", BinaryApp(Ident("id"), "=", Lit(CustomLit(JsObj("point")))))

DmlU ==
    {Update("employee", <<<<Ident("salary"), Lit5000>>>>, null),
     Update("employee", <<<<Ident("salary"), DefaultValue>>, <<Ident("name"), LitCharlotte>>>>, IdEq5),
     UpdatePositioned("employee", <<<<Ident("salary"), Lit5000>>>>, "cur"),
     Delete("employee", null), Delete("employee", IdEq5), DeleteCustom,
     DeletePositioned("employee", "a\"b")}

(* Schema statements, as SchemaBuilder (src/src/builder/schema.ts) builds them
   and as the renderer reads them *)
CheckTimeU == {ConstraintCheckTime(d, i) : d \in BOOLEAN, i \in BOOLEAN}
ImmediateDeferrable == ConstraintCheckTime(TRUE, FALSE)
IntegerType == DataType("IntegerType")
NotNull == ColumnConstraintDefinition(null, ColumnNotNull, null)
SerialId == ColumnDefinition("id", Ident("serial"), null, <<NotNull>>, null)
SalaryColumn == ColumnDefinition("salary", IntegerType, Lit(NumLit(JsNum(5000))), <<>>, null)
MoneyDomain ==
    DomainDefinition("money", IntegerType, Lit(NumLit(JsNum(5))), Ident("positive"),
                     QueryOf(SelectStar), ImmediateDeferrable, Ident("de_DE"))

PrimaryKey ==
    ColumnConstraintDefinition(Ident("pk"), UniqueConstraint(TRUE, <<>>), ImmediateDeferrable)
ColumnConstraintU == {NotNull, PrimaryKey}

ReferenceU ==
    {ReferenceConstraint("department", null, "Regular", null, null),
     ReferenceConstraint("department", Array(<<Ident("id")>>), "Full",
                         JsStr("Cascade"), JsStr("SetNull")),
     ReferenceConstraint("department", Array(<<Ident("id"), Ident("name")>>), "Partial",
                         null, JsStr("NoAction")),
     ReferenceConstraint("a\"b", null, "Regular", JsStr("SetDefault"), null)}

TableConstraintU ==
    {TableConstraint(null, UniqueConstraint(FALSE, <<Ident("id"), Ident("name")>>), null),
     TableConstraint(Ident("fk"),
                     ReferenceConstraint("department", Array(<<Ident("id")>>), "Full",
                                         JsStr("Cascade"), JsStr("SetNull")),
                     ImmediateDeferrable),
     TableConstraint(Ident("chk"), CheckConstraint(QueryOf(SelectWho)),
                     ConstraintCheckTime(FALSE, TRUE))}

DomainConstraintU ==
    {[name |-> n, expr |-> QueryOf(SelectWho), attrs |-> a] :
        n \in {null, Ident("positive")}, a \in {null, ImmediateDeferrable}}

AssertionU ==
    {AssertionDefinition("positive", QueryOf(SelectWho), ct) :
        ct \in {null, ImmediateDeferrable, ConstraintCheckTime(FALSE, TRUE)}}

DomainU == {DomainDefinition("money", IntegerType, null, null, null, null, null), MoneyDomain}

TableU ==
    {TableDefinition("employee", "Persistent", <<SerialId>>, <<>>, null),
     TableDefinition("employee", "LocalTemp", <<SerialId, SalaryColumn>>, <<>>, JsStr("Delete")),
     TableDefinition("employee", "GlobalTemp",
                     <<SerialId, ColumnDefinition("name", Ident("text"), NullDefault,
                                                  <<NotNull, PrimaryKey>>, Ident("de_DE"))>>,
                     <<TableConstraint(Ident("chk"), CheckConstraint(QueryOf(SelectWho)), null)>>,
                     JsStr("Preserve"))}

ViewU ==
    {ViewDefinition("v", null, QueryOf(SelectStar), null),
     ViewDefinition("v", Array(<<Ident("a"), Ident("b")>>), QueryOf(SelectWho), JsStr("Cascaded"))}

Grantees == Array(<<Ident("alice"), Ident("bob")>>)

GrantU ==
    {GrantStatement(null, "Table", "employee", null, FALSE),
     GrantStatement(Array(<<>>), "Table", "employee", Array(<<Ident("alice")>>), FALSE),
     GrantStatement(Array(<<SelectPrivilege, DeletePrivilege, UsagePrivilege>>), "Domain", "money",
                    Grantees, TRUE),
     GrantStatement(Array(<<SelectPrivilege, UpdatePrivilege(null)>>), "Collation", "de_DE", null, TRUE),
     GrantStatement(Array(<<InsertPrivilege(Array(<<>>))>>), "Table", "employee", Grantees, FALSE)}

SchemaU ==
    {CreateSchema(Ident("hr"), null, null, null, <<>>),
     CreateSchema(Ident("hr"), Ident("cat"), Ident("admin"), Ident("utf8"),
                  <<MoneyDomain,
                    TableDefinition("employee", "Persistent", <<SalaryColumn>>, <<>>, null)>>),
     CreateSchema(null, null, Ident("admin"), null,
                  <<ViewDefinition("v", null, QueryOf(SelectStar), null),
                    GrantStatement(null, "Table", "employee", null, FALSE)>>)}

\* the statements of SchemaBuilder.dropTable, dropView, revoke, dropDomain, dropAssertion
DropU ==
    {DropTable("employee", "Cascade"), DropView("v", "Restrict"), DropDomain("money", "Cascade"),
     DropAssertion("positive"),
     RevokePrivilege(Array(<<SelectPrivilege>>), "Table", "employee", Grantees, FALSE, "Restrict")}

CustomExpr == ExprExtension("custom")
SelectCustomTable ==
    Select(<<AnonymousSelection(Wildcard)>>,
           JoinedTable(BasicTable("employee"),
                       <<Join("RIGHT OUTER", TableExtension("custom"), OnIds)>>),
           null, <<>>, null)
SelectWhere(e) == Select(<<AnonymousSelection(Lit5)>>, From("employee"), e, <<>>, null)

\* Statements with an extension node or a data type somewhere in them
UnsupportedU ==
    {Delete("employee", CustomExpr),
     Update("employee", <<<<Ident("salary"), BinaryApp(Lit5, "+", CustomExpr)>>>>, IdEq5),
     Insert("employee", <<>>, ValuesConstructor(<<<<Lit5, Cast(Lit55, IntegerType)>>>>)),
     Query(<<CommonTableExpr(TableAlias("recent", <<>>), QueryOf(SelectCustomTable))>>,
           SelectWho, <<>>, <<>>, Lit5, null),
     Query(<<>>, SelectWho, <<SetOp("UNION", FALSE, SelectWhere(CustomExpr))>>, <<>>, null, null),
     ViewDefinition("v", null, QueryOf(SelectCustomTable), null),
     AssertionDefinition("positive", QueryOf(SelectWhere(Cast(Lit5, IntegerType))), null)}
    \cup DomainU \cup {t \in TableU : \E i \in DOMAIN t.columns : t.columns[i].type._tag # "Ident"}

DdlU == AssertionU \cup DomainU \cup TableU \cup ViewU \cup GrantU \cup SchemaU \cup DropU

\* Calls of the methods below renderStatement
PartU ==
    {Step("renderConstraintCheckTime", c) : c \in CheckTimeU}
    \cup {Step("renderDomainConstraint", c) : c \in DomainConstraintU}
    \cup {Step("renderColumnConstraint", c) : c \in ColumnConstraintU}
    \cup {Step("renderTableConstraint", c) : c \in TableConstraintU}
    \cup {Step("renderReferenceConstraint", c) : c \in ReferenceU}

StatementU == QueryU \cup InsertU \cup DmlU \cup DdlU \cup UnsupportedU

OptsU == [paramsMode : {"undefined", "true", "false"},
          placeHolderStyle : {"undefined", "$", "?"}]

----------------------------------------------------------------------------
(* The builders.  A method's outcome names the receiver after the call
   (`this`), the builders the call constructs with `new`, in order (`new`),
   and the reference it returns: "new" (the last one constructed), "this" or
   "undefined". *)

\* tag(tag, obj): { _tag: tag, ...obj }
tag(t, obj) == obj @@ [_tag |-> t]
\* copy(obj, vals): { ...obj, ...vals }
copy(obj, vals) == vals @@ obj

\* A string argument that is split: its separator characters and the pieces between them
Str(pieces) == [t |-> "string", v |-> pieces]
\* An object argument
Obj(node) == [t |-> "object", v |-> node]
\* An array argument
Arr(items) == [t |-> "array", v |-> items]
\* an optional argument read as a condition
truthy(x) == IF x = undefined THEN FALSE ELSE x.v

\* String.prototype.split(sep); `word` is the part read so far
RECURSIVE split(_, _, _)
split(pieces, sep, word) ==
    IF pieces = <<>> THEN <<word>>
    ELSE IF Head(pieces) = sep THEN <<word>> \o split(Tail(pieces), sep, "")
    ELSE split(Tail(pieces), sep, word \o Head(pieces))

Functions == [_tag |-> "Functions"]

\* new QueryBuilder(query, fn)
QueryBuilder(query, fn) == [_tag |-> "QueryBuilder", _query |-> query, fn |-> fn]

\* a method that writes the receiver and returns it
Constructed_InPlace(this, builder) == [this |-> builder, new |-> <<>>, returned |-> "this"]

\* return new QueryBuilder(...) / new SchemaBuilder(...): the receiver is read only
Constructed(this, builder) == [this |-> this, new |-> <<builder>>, returned |-> "new"]

\* Builder.from(table)
from(table) ==
    QueryBuilder(
        tag("Query",
            [commonTableExprs |-> <<>>,
             selection |-> tag("Select",
                               [selections |-> <<>>,
                                from |-> tag("JoinedTable",
                                             [name |-> Ident(Flatten(table.v)), joins |-> <<>>]),
                                where |-> null, groupBy |-> <<>>, having |-> null,
                                extensions |-> null]),
             unions |-> <<>>, ordering |-> <<>>, limit |-> null, offset |-> null,
             extensions |-> null]),
        Functions)

\* the parts of a column name as an expression
columnExpr(idParts) ==
    IF Len(idParts) = 1 THEN Ident(idParts[1])
    ELSE CompoundIdentifier([i \in DOMAIN idParts |-> Ident(idParts[i])])

\* c => ... of select
selectionOf(c) ==
    IF c.t = "object" THEN c.v ELSE AnonymousSelection(columnExpr(split(c.v, ".", "")))

\* a select that adds to the root Select whatever the unions are
select_RootAlways(this, cols) ==
    Constructed(this,
        QueryBuilder([this._query EXCEPT !.selection.selections =
                          @ \o [i \in DOMAIN cols |-> selectionOf(cols[i])]],
                     this.fn))

\* QueryBuilder.select(...cols)
select(this, cols) ==
    LET selections == [i \in DOMAIN cols |-> selectionOf(cols[i])]
        numUnions == Len(this._query.unions)
    IN  IF numUnions = 0
        THEN Constructed(this,
                 QueryBuilder([this._query EXCEPT !.selection.selections = @ \o selections],
                              this.fn))
        ELSE Constructed(this,
                 QueryBuilder(
                     [this._query EXCEPT !.unions =
                         SubSeq(@, 1, numUnions - 1)
                         \o <<[this._query.unions[numUnions] EXCEPT
                                  !.select.selections = @ \o selections]>>],
                     this.fn))

\* QueryBuilder.selectAs(alias, col)
selectAs(this, alias, col) ==
    select(this, <<IF col.t = "object"
                   THEN Obj(tag("AliasedSelection",
                                [selection |-> col.v, alias |-> Ident(Flatten(alias.v))]))
                   ELSE col>>)

\* QueryBuilder.join(kind, table, on)
join(this, kind, table, on) ==
    Constructed(this,
        QueryBuilder([this._query EXCEPT !.selection.from.joins =
                         @ \o <<tag("Join", [name |-> Ident(Flatten(table.v)), kind |-> kind,
                                             on |-> on])>>],
                     this.fn))

\* QueryBuilder.with(alias, sub)
with(this, alias, sub) ==
    Constructed(this,
        QueryBuilder([this._query EXCEPT !.commonTableExprs =
                         @ \o <<tag("CommonTableExpr",
                                    [alias |-> tag("TableAlias",
                                                   [name |-> Ident(Flatten(alias.v)),
                                                    columns |-> <<>>]),
                                     query |-> sub._query])>>],
                     Functions))

\* opts?.order ?? null, opts?.nullHandling ?? null
optional(o, field) ==
    IF o = undefined THEN null ELSE IF o[field] = undefined THEN null ELSE o[field].v

\* QueryBuilder.orderBy(col, opts)
orderBy(this, col, o) ==
    Constructed(this,
        QueryBuilder([this._query EXCEPT !.ordering =
                         @ \o <<tag("OrderingExpr",
                                    [expr |-> IF col.t = "object" THEN col.v
                                              ELSE columnExpr(split(col.v, ".", "")),
                                     order |-> optional(o, "order"),
                                     nullHandling |-> optional(o, "nullHandling")])>>],
                     this.fn))

\* QueryBuilder.orderByAsc / orderByDesc(col, opts): the builder orderBy
\* constructs is not returned
orderByDirection(this, col, o, order) ==
    [this |-> this,
     new |-> orderBy(this, col, [order |-> JsStr(order),
                                 nullHandling |-> IF o = undefined THEN undefined
                                                  ELSE o.nullHandling]).new,
     returned |-> "undefined"]

\* typeof expr === 'number' ? Lit(NumLit(expr)) : expr
numberOrExpr(expr) == IF expr.t = "number" THEN Lit(NumLit(expr)) ELSE expr.v

\* QueryBuilder.limit(expr)
limit(this, expr) ==
    Constructed(this, QueryBuilder([this._query EXCEPT !.limit = numberOrExpr(expr)], this.fn))

\* QueryBuilder.offset(expr)
offset(this, expr) ==
    Constructed(this, QueryBuilder([this._query EXCEPT !.offset = numberOrExpr(expr)], this.fn))

\* new SchemaBuilder(statements, fn)
SchemaBuilder(statements, fn) ==
    [_tag |-> "SchemaBuilder", _statements |-> statements, fn |-> fn]

\* a statement method that puts its statement before the receiver's
Appended_AtFront(this, def) ==
    Constructed(this, SchemaBuilder(<<def>> \o this._statements, this.fn))

\* new SchemaBuilder([...this._statements, def], this.fn)
Appended(this, def) == Constructed(this, SchemaBuilder(this._statements \o <<def>>, this.fn))

makeConstraint(con) ==
    IF con.t # "string" THEN con.v
    ELSE CASE con.v \in {"not null", "NOT NULL"} ->
                ColumnConstraintDefinition(null, ColumnNotNull, null)
           [] con.v \in {"unique", "UNIQUE"} ->
                ColumnConstraintDefinition(null, UniqueConstraint(FALSE, <<>>), null)
           [] con.v \in {"primary key", "PRIMARY KEY"} ->
                ColumnConstraintDefinition(null, UniqueConstraint(TRUE, <<>>), null)

\* colName => ColumnDefinition of createTable
makeColumn(colName, col) ==
    ColumnDefinition(colName,
                     IF col.type.t = "string" THEN Ident(col.type.v) ELSE col.type.v,
                     IF col.default = null THEN NullDefault
                     ELSE IF col.default = undefined THEN null ELSE col.default,
                     IF col.constraints = undefined THEN <<>>
                     ELSE IF col.constraints.t = "array"
                     THEN [i \in DOMAIN col.constraints.v |-> makeConstraint(col.constraints.v[i])]
                     ELSE <<makeConstraint(col.constraints)>>,
                     IF col.collation = undefined THEN null ELSE Ident(col.collation.v))

\* SchemaBuilder.createTable(name, opts); opts.columns in key order
createTable(this, name, o) ==
    Appended(this,
        TableDefinition(name,
                        IF truthy(o.local) THEN "LocalTemp"
                        ELSE IF truthy(o.temporary) THEN "GlobalTemp" ELSE "Persistent",
                        [i \in DOMAIN o.columns |-> makeColumn(o.columns[i][1], o.columns[i][2])],
                        IF o.constraints = undefined THEN <<>> ELSE o.constraints.v,
                        IF o.onCommit = undefined THEN null ELSE o.onCommit.v))

\* SchemaBuilder.createView(name, opts)
createView(this, name, o) ==
    Appended(this,
        ViewDefinition(name,
                       IF o.columns = undefined THEN null
                       ELSE Array([i \in DOMAIN o.columns.v |-> Ident(o.columns.v[i])]),
                       o.query._statement,
                       IF o.check = undefined THEN null ELSE o.check.v))

\* SchemaBuilder.#makePrivilege(p)
makePrivilege(p) ==
    IF p.t # "string" THEN p.v
    ELSE CASE p.v \in {"delete", "DELETE"} -> DeletePrivilege
           [] p.v \in {"insert", "INSERT"} -> InsertPrivilege(Array(<<>>))
           [] p.v \in {"select", "SELECT"} -> SelectPrivilege
           [] p.v \in {"references", "REFERENCES"} -> ReferencePrivilege(Array(<<>>))
           [] p.v \in {"update", "UPDATE"} -> UpdatePrivilege(Array(<<>>))
           [] p.v \in {"usage", "USAGE"} -> UsagePrivilege
           [] OTHER -> p.v

\* opts.on.split(' ', 2)
onParts(on) == SubSeq(split(on.v, " ", ""), 1, 2)

objectTypeOf(objectTypeRaw) ==
    CASE objectTypeRaw = "TABLE" -> "Table"
      [] objectTypeRaw = "DOMAIN" -> "Domain"
      [] objectTypeRaw = "COLLATION" -> "Collation"
      [] OTHER -> "undefined"

\* opts.privileges?.map(this.#makePrivilege) ?? null
privilegesOf(o) ==
    IF o.privileges = undefined THEN null
    ELSE Array([i \in DOMAIN o.privileges.v |-> makePrivilege(o.privileges.v[i])])

\* 'public' in opts ? null : names.map(Ident)
granteesOf(o, names) ==
    IF o.public # undefined THEN null ELSE Array([i \in DOMAIN names.v |-> Ident(names.v[i])])

\* SchemaBuilder.grant(opts)
grant(this, o) ==
    Appended(this,
        GrantStatement(privilegesOf(o), objectTypeOf(onParts(o.on)[1]), onParts(o.on)[2],
                       granteesOf(o, o.to),
                       IF o.withGrantOption = undefined THEN FALSE ELSE o.withGrantOption.v))

\* SchemaBuilder.createDomain(name, opts)
createDomain(this, name, o) ==
    Appended(this,
        tag("DomainDefinition",
            [name |-> Ident(name), dataType |-> o.type,
             default |-> IF o.default # undefined THEN o.default ELSE null,
             constraints |-> IF o.constraints # undefined THEN o.constraints.v ELSE <<>>,
             collation |-> IF o.collation # undefined THEN Ident(o.collation.v) ELSE null,
             extensions |-> null]))

\* SchemaBuilder.createAssertion(name, opts)
createAssertion(this, name, o) ==
    Appended(this,
        AssertionDefinition(name, o.search._statement,
            ConstraintCheckTime(IF o.deferrable = undefined THEN TRUE ELSE o.deferrable.v,
                                IF o.initiallyDeferred = undefined THEN FALSE
                                ELSE o.initiallyDeferred.v)))

\* SchemaBuilder.#makeBehavior(behavior)
makeBehavior(behavior) ==
    CASE behavior \in {"cascade", "CASCADE"} -> "Cascade"
      [] behavior \in {"restrict", "RESTRICT"} -> "Restrict"
      [] OTHER -> behavior

\* SchemaBuilder.dropTable(name, behavior)
dropTable(this, name, behavior) == Appended(this, DropTable(name, makeBehavior(behavior)))
\* SchemaBuilder.dropView(name, behavior)
dropView(this, name, behavior) == Appended(this, DropView(name, makeBehavior(behavior)))

\* SchemaBuilder.revoke(opts)
revoke(this, o) ==
    Appended(this,
        RevokePrivilege(privilegesOf(o), objectTypeOf(onParts(o.on)[1]), onParts(o.on)[2],
                        granteesOf(o, o.from),
                        IF o.withGrantOption = undefined THEN FALSE ELSE o.withGrantOption.v,
                        makeBehavior(o.behavior)))

\* SchemaBuilder.dropDomain(name, behavior)
dropDomain(this, name, behavior) == Appended(this, DropDomain(name, makeBehavior(behavior)))
\* SchemaBuilder.dropAssertion(name)
dropAssertion(this, name) == Appended(this, DropAssertion(name))

\* Arguments of the builders' methods
EmployeeName == Str(<<"employee", ".", "name">>)
NameLength == Obj(AliasedSelection(FunctionApp(Ident("CHAR_LENGTH"), <<Ident("name")>>), "n"))
ColsU == {<<EmployeeName, Str(<<"id">>)>>, <<NameLength, Str(<<"id">>), EmployeeName>>}
OrderOptsU == {undefined, [order |-> JsStr("DESC"), nullHandling |-> undefined]}

\* Queries handed to new QueryBuilder(query, fn): one and two unions
BuiltSelect(t) == from(Str(<<t>>))._query.selection
UnionQueryU ==
    {[from(Str(<<"employee">>))._query EXCEPT
         !.unions = <<SetOp("UNION", TRUE, BuiltSelect("department")),
                      SetOp("EXCEPT", FALSE, [BuiltSelect("contractor") EXCEPT
                                                 !.selections = <<AnonymousSelection(Ident("id"))>>])>>]}

NoColumnOpts ==
    [type |-> JsStr("money"), default |-> undefined, constraints |-> undefined,
     collation |-> undefined]
TableArgsU ==
    {[local |-> undefined, temporary |-> undefined, constraints |-> undefined,
      onCommit |-> undefined,
      columns |-> <<<<"id", [NoColumnOpts EXCEPT !.type = Obj(IntegerType),
                                                 !.constraints = JsStr("PRIMARY KEY")]>>,
                    <<"salary", [NoColumnOpts EXCEPT !.default = null,
                                                     !.constraints = Arr(<<JsStr("not null"),
                                                                            Obj(NotNull)>>),
                                                     !.collation = JsStr("de_DE")]>>>>],
     [local |-> undefined, temporary |-> JsBool(TRUE),
      constraints |-> Arr(<<TableConstraint(null, UniqueConstraint(FALSE, <<Ident("id")>>), null)>>),
      onCommit |-> JsStr("Delete"),
      columns |-> <<<<"id", NoColumnOpts>>>>]}
ViewArgsU ==
    {[columns |-> undefined, query |-> [_statement |-> QueryOf(SelectStar)], check |-> undefined],
     [columns |-> Arr(<<"a", "b">>), query |-> [_statement |-> QueryOf(SelectWho)],
      check |-> JsStr("Cascaded")]}
GrantArgsU ==
    {[privileges |-> undefined, on |-> Str(<<"TABLE", " ", "employee">>), to |-> undefined,
      public |-> JsBool(TRUE), withGrantOption |-> undefined],
     [privileges |-> Arr(<<JsStr("INSERT"), JsStr("select"), Obj(UpdatePrivilege(null))>>),
      on |-> Str(<<"DOMAIN", " ", "money">>), to |-> Arr(<<"alice", "bob">>),
      public |-> undefined, withGrantOption |-> JsBool(TRUE)]}
RevokeArgsU ==
    {[privileges |-> Arr(<<JsStr("SELECT")>>), on |-> Str(<<"TABLE", " ", "employee">>),
      from |-> Arr(<<"alice", "bob">>), public |-> undefined, withGrantOption |-> undefined,
      behavior |-> "restrict"]}
DomainArgsU ==
    {[type |-> IntegerType, default |-> undefined, constraints |-> undefined,
      collation |-> undefined],
     [type |-> IntegerType, default |-> NullDefault, constraints |-> Arr(<<>>),
      collation |-> JsStr("de_DE")]}
AssertionArgsU ==
    {[search |-> [_statement |-> QueryOf(SelectWho)], initiallyDeferred |-> undefined,
      deferrable |-> undefined],
     [search |-> [_statement |-> QueryOf(SelectStar)], initiallyDeferred |-> JsBool(TRUE),
      deferrable |-> JsBool(FALSE)]}

----------------------------------------------------------------------------
(* The state machine: one Renderer instance and the calls made on it, and a
   second instance of the same configuration that renders one literal *)

NoCall ==
    [op |-> "new", arg |-> null, tree |-> null, before |-> <<>>, error |-> "", text |-> <<>>,
     object |-> null]

\* The node the caller passed, as the caller finds it after the call: the
\* render methods assign to locals and push to this.params, never to a node
Read(node) == node

\* no second instance
NoTwin == [renderer |-> null, arg |-> null, error |-> "", text |-> <<>>]

Init ==
    /\ opts \in OptsU
    /\ calls = 0
    /\ renderer = Constructor(opts)
    /\ last = NoCall
    /\ twin = NoTwin
    /\ builders = <<>>
    /\ created = <<>>
    /\ made = [op |-> "none", this |-> 0, args |-> <<>>, returned |-> 0]

\* A call that restores the buffer it found when the method throws
Invoke_RolledBack(op, arg, r) ==
    /\ calls < MaxCalls
    /\ Len(renderer.params) <= MaxBuffered
    /\ calls' = calls + 1
    /\ renderer' = IF Failed(r) THEN renderer ELSE With(renderer, r.params)
    /\ last' = [op |-> op, arg |-> arg, tree |-> arg, before |-> renderer.params,
                error |-> r.error, text |-> r.text, object |-> r.object]
    /\ twin' = NoTwin
    /\ UNCHANGED <<opts, builders, created, made>>

\* A call of method `op` with argument `arg` whose outcome is r
Invoke(op, arg, r) ==
    /\ calls < MaxCalls
    /\ Len(renderer.params) <= MaxBuffered
    /\ calls' = calls + 1
    /\ renderer' = With(renderer, r.params)
    /\ last' = [op |-> op, arg |-> arg, tree |-> Read(arg), before |-> renderer.params,
                error |-> r.error, text |-> r.text, object |-> r.object]
    /\ twin' = NoTwin
    /\ UNCHANGED <<opts, builders, created, made>>

CallRenderLiteral ==
    \E l \in LiteralU : Invoke("renderLiteral", l, Apply("renderLiteral", renderer, l))
CallRenderExpr == \E e \in ExprU : Invoke("renderExpr", e, Apply("renderExpr", renderer, e))
CallRenderSelect ==
    \E sel \in SelectU : Invoke("renderSelect", sel, Apply("renderSelect", renderer, sel))
CallRenderStatement ==
    \E st \in StatementU : Invoke("renderStatement", st, Apply("renderStatement", renderer, st))
CallRenderPart == \E c \in PartU : Invoke(c.f, c.x, Apply(c.f, renderer, c.x))

\* The definition new SchemaBuilder([], fn).createDomain('money', o) holds
BuiltDomain(o) == createDomain(SchemaBuilder(<<>>, Functions), "money", o).new[1]._statements[1]

\* renderStatement of a built domain definition, called on an instance of a
\* subclass that overrides renderDataType
CallRenderBuiltDomain ==
    \E o \in DomainArgsU :
        Invoke("TypedRenderer.renderStatement", BuiltDomain(o),
               Apply("renderStatement", TypedRenderer(renderer), BuiltDomain(o)))

\* the outcome of new Renderer(o).renderLiteral(l), and the instance after it
NewRenderLiteral(o, l, r) ==
    [renderer |-> With(Constructor(o), r.params), arg |-> l, error |-> r.error, text |-> r.text]

\* After the first instance's first call, a renderLiteral call, a second
\* instance is constructed from the same opts and renders a literal
TwinRenderLiteral ==
    /\ calls = 1 /\ last.op = "renderLiteral" /\ twin = NoTwin
    /\ \E l \in LiteralU :
            twin' = NewRenderLiteral(opts, l, Apply("renderLiteral", Constructor(opts), l))
    /\ UNCHANGED <<opts, renderer, last, calls, builders, created, made>>

Next ==
    \/ CallRenderLiteral
    \/ CallRenderExpr
    \/ CallRenderSelect
    \/ CallRenderStatement
    \/ CallRenderPart
    \/ CallRenderBuiltDomain
    \/ TwinRenderLiteral

Spec == Init /\ [][Next]_vars

----------------------------------------------------------------------------
(* The builders' state machine: the builders constructed so far, in the
   order of their construction, and the methods called on them *)

NoOp == [op |-> "none", this |-> 0, args |-> <<>>, returned |-> 0]

RendererIdle ==
    /\ opts = [paramsMode |-> "undefined", placeHolderStyle |-> "undefined"]
    /\ calls = 0
    /\ renderer = Constructor(opts)
    /\ last = NoCall
    /\ twin = NoTwin

BuilderInit ==
    /\ RendererIdle
    /\ builders = <<>>
    /\ created = <<>>
    /\ made = NoOp

\* The call builders[i].op(args) whose outcome is r; `created` keeps every
\* builder as it was constructed
Method(op, i, args, r) ==
    /\ Len(builders) + Len(r.new) <= MaxBuilders
    /\ builders' = [builders EXCEPT ![i] = r.this] \o r.new
    /\ created' = created \o r.new
    /\ made' = [op |-> op, this |-> i, args |-> args,
                returned |-> CASE r.returned = "new" -> Len(builders) + Len(r.new)
                               [] r.returned = "this" -> i
                               [] OTHER -> 0]
    /\ UNCHANGED <<opts, renderer, last, calls, twin>>

\* A builder constructed without a receiver
New(op, args, builder) ==
    /\ Len(builders) < MaxBuilders
    /\ builders' = Append(builders, builder)
    /\ created' = Append(created, builder)
    /\ made' = [op |-> op, this |-> 0, args |-> args, returned |-> Len(builders) + 1]
    /\ UNCHANGED <<opts, renderer, last, calls, twin>>

QueryBuilders == {i \in DOMAIN builders : builders[i]._tag = "QueryBuilder"}
SchemaBuilders == {i \in DOMAIN builders : builders[i]._tag = "SchemaBuilder"}

CallFrom == \E t \in {"employee"} : New("from", <<t>>, from(Str(<<t>>)))
NewQueryBuilder == \E q \in UnionQueryU : New("new QueryBuilder", <<q>>, QueryBuilder(q, Functions))
NewSchemaBuilder == New("new SchemaBuilder", <<>>, SchemaBuilder(<<>>, Functions))

CallSelect ==
    \E i \in QueryBuilders, cols \in ColsU : Method("select", i, <<cols>>, select(builders[i], cols))
CallSelectAs ==
    \E i \in QueryBuilders, col \in {NameLength.v.selection, EmployeeName} :
        Method("selectAs", i, <<"len", col>>,
               selectAs(builders[i], Str(<<"len">>),
                        IF col = EmployeeName THEN col ELSE Obj(col)))
CallJoin ==
    \E i \in QueryBuilders :
        Method("join", i, <<"LEFT OUTER", "department", OnIds>>,
               join(builders[i], "LEFT OUTER", Str(<<"department">>), OnIds))
CallWith ==
    \E i \in QueryBuilders, sub \in QueryBuilders :
        Method("with", i, <<"recent", sub>>, with(builders[i], Str(<<"recent">>), builders[sub]))
CallOrderBy ==
    \E i \in QueryBuilders, o \in OrderOptsU :
        Method("orderBy", i, <<EmployeeName, o>>, orderBy(builders[i], EmployeeName, o))
CallOrderByAsc ==
    \E i \in QueryBuilders :
        Method("orderByAsc", i, <<EmployeeName>>,
               orderByDirection(builders[i], EmployeeName, undefined, "ASC"))
CallOrderByDesc ==
    \E i \in QueryBuilders :
        Method("orderByDesc", i, <<EmployeeName>>,
               orderByDirection(builders[i], EmployeeName,
                                [nullHandling |-> JsStr("NULLS FIRST")], "DESC"))
CallLimit ==
    \E i \in QueryBuilders, e \in {JsNum(5), Obj(Lit55)} :
        Method("limit", i, <<e>>, limit(builders[i], e))
CallOffset ==
    \E i \in QueryBuilders : Method("offset", i, <<JsNum(5)>>, offset(builders[i], JsNum(5)))

CallCreateTable ==
    \E i \in SchemaBuilders, o \in TableArgsU :
        Method("createTable", i, <<"employee", o>>, createTable(builders[i], "employee", o))
CallCreateView ==
    \E i \in SchemaBuilders, o \in ViewArgsU :
        Method("createView", i, <<"v", o>>, createView(builders[i], "v", o))
CallGrant ==
    \E i \in SchemaBuilders, o \in GrantArgsU : Method("grant", i, <<o>>, grant(builders[i], o))
CallCreateDomain ==
    \E i \in SchemaBuilders, o \in DomainArgsU :
        Method("createDomain", i, <<"money", o>>, createDomain(builders[i], "money", o))
CallCreateAssertion ==
    \E i \in SchemaBuilders, o \in AssertionArgsU :
        Method("createAssertion", i, <<"positive", o>>,
               createAssertion(builders[i], "positive", o))
CallDropTable ==
    \E i \in SchemaBuilders, b \in {"RESTRICT"} :
        Method("dropTable", i, <<"employee", b>>, dropTable(builders[i], "employee", b))
CallDropView ==
    \E i \in SchemaBuilders :
        Method("dropView", i, <<"v", "CASCADE">>, dropView(builders[i], "v", "CASCADE"))
CallRevoke ==
    \E i \in SchemaBuilders, o \in RevokeArgsU : Method("revoke", i, <<o>>, revoke(builders[i], o))
CallDropDomain ==
    \E i \in SchemaBuilders :
        Method("dropDomain", i, <<"money", "restrict">>,
               dropDomain(builders[i], "money", "restrict"))
CallDropAssertion ==
    \E i \in SchemaBuilders :
        Method("dropAssertion", i, <<"positive">>, dropAssertion(builders[i], "positive"))

BuilderNext ==
    \/ CallFrom
    \/ NewQueryBuilder
    \/ NewSchemaBuilder
    \/ CallSelect
    \/ CallSelectAs
    \/ CallJoin
    \/ CallWith
    \/ CallOrderBy
    \/ CallOrderByAsc
    \/ CallOrderByDesc
    \/ CallLimit
    \/ CallOffset
    \/ CallCreateTable
    \/ CallCreateView
    \/ CallGrant
    \/ CallCreateDomain
    \/ CallCreateAssertion
    \/ CallDropTable
    \/ CallDropView
    \/ CallRevoke
    \/ CallDropDomain
    \/ CallDropAssertion

BuilderSpec == BuilderInit /\ [][BuilderNext]_vars

----------------------------------------------------------------------------
(* Vocabulary of the properties *)

Called(op) == last.op = op
\* the call returned a string
Returned == last.error = "" /\ last.object = null
Threw == last.error # ""
Fresh == last.before = <<>>
ParamsMode == renderer._paramsMode
Dollar == renderer._placeHolderStyle = "$"
Pushed == SubSeq(renderer.params, Len(last.before) + 1, Len(renderer.params))

\* The text '$n', written out
DollarN ==
    <<"$1", "$2", "$3", "$4", "$5", "$6", "$7", "$8", "$9", "$10", "$11", "$12", "$13",
      "$14", "$15", "$16", "$17", "$18", "$19", "$20">>
IsDollarN(chunk) == \E n \in DOMAIN DollarN : chunk = DollarN[n]
NumberOf(chunk) == CHOOSE n \in DOMAIN DollarN : chunk = DollarN[n]
IsPlaceholder(chunk) == IF Dollar THEN IsDollarN(chunk) ELSE chunk = "?"
\* The placeholders of a text, left to right
Placeholders(text) == SelectSeq(text, IsPlaceholder)

Quoted(name) == "\"" \o name \o "\""
RECURSIVE JoinStrings(_, _)
JoinStrings(strs, sep) ==
    IF strs = <<>> THEN ""
    ELSE IF Len(strs) = 1 THEN strs[1]
    ELSE strs[1] \o sep \o JoinStrings(Tail(strs), sep)

\* The value renderLiteral is to bind for a literal
BoundValue(literal) == IF literal._tag = "NullLit" THEN JsNull ELSE literal.val

----------------------------------------------------------------------------
(* C1: in parameter mode with the '$' style every renderLiteral call, NullLit
   included, appends exactly one value to params (null for NullLit, the
   literal's val otherwise) and returns '$n', n the buffer's new length; so
   the values a call pushed sit at the positions its placeholders name: the
   text of any call that returned holds each of '$k', k from the old length
   + 1 to the new length, exactly once, and no other placeholder. *)
C1_LiteralBoundAndNumbered ==
    (ParamsMode /\ Dollar) =>
        /\ Called("renderLiteral") =>
            /\ Returned
            /\ renderer.params = Append(last.before, BoundValue(last.arg))
            /\ last.text = <<DollarN[Len(renderer.params)]>>
        /\ (~Called("new") /\ Returned) =>
            /\ Len(Placeholders(last.text)) = Len(Pushed)
            /\ \A k \in 1..Len(Pushed) :
                \E i \in DOMAIN last.text : last.text[i] = DollarN[Len(last.before) + k]

\* a NullLit bound as the second value of the buffer and rendered as $2
C1_Witness ==
    /\ ParamsMode /\ Dollar /\ Called("renderLiteral")
    /\ last.arg = NullLit
    /\ Len(last.before) = 1
    /\ renderer.params[2] = JsNull
    /\ Flatten(last.text) = "$2"

----------------------------------------------------------------------------
(* C2: for every statement rendered in parameter mode on a fresh renderer the
   i-th placeholder of the text, left to right, is the one of params[i-1]:
   with the '$' style the placeholders occur as $1, $2, ..., $n in increasing
   order. *)
C2_PlaceholdersInBufferOrder ==
    (Called("renderStatement") /\ Returned /\ ParamsMode /\ Dollar /\ Fresh) =>
        Placeholders(last.text) = [i \in 1..Len(renderer.params) |-> DollarN[i]]

----------------------------------------------------------------------------
(* C3: round trip.  Rendering a statement in parameter mode and substituting
   params[i-1] for the i-th '?' (or params[n-1] for '$n') puts at every literal
   position the value that the inline rendering of the same statement embeds
   there. *)
InlineRenderer == Constructor([paramsMode |-> "false", placeHolderStyle |-> "undefined"])

\* The inline texts of the literals that bind the value v (modulo quoting)
InlineForms(v) ==
    {Flatten(renderLiteral(InlineRenderer, l).text) :
        l \in {x \in LiteralU : x._tag # "CustomLit" /\ BoundValue(x) = v}}

\* The value substituted for the placeholder at position j of the text
Substituted(text, params, j) ==
    IF Dollar THEN params[NumberOf(text[j])]
    ELSE params[Len(Placeholders(SubSeq(text, 1, j)))]

C3_RoundTrip ==
    (Called("renderStatement") /\ Returned /\ ParamsMode /\ Fresh) =>
        LET inline == Apply("renderStatement", InlineRenderer, last.arg)
        IN  ~Failed(inline) =>
                /\ Len(inline.text) = Len(last.text)
                /\ \A j \in DOMAIN last.text :
                    IF IsPlaceholder(last.text[j])
                    THEN inline.text[j] \in InlineForms(Substituted(last.text, renderer.params, j))
                    ELSE inline.text[j] = last.text[j]

----------------------------------------------------------------------------
(* C4: an Insert with a ValuesConstructor rendered on
   new Renderer({paramsMode: true}) numbers the literal cells row by row, left
   to right within a row: the text is 'INSERT INTO <table> (<cols>) VALUES
   ($1, ..., $k), ($k+1, ...)', a DefaultValue cell being the keyword DEFAULT,
   and the values the call binds are exactly the literal cells' values in that
   order. *)
RECURSIVE CellsOf(_)
CellsOf(rows) == IF rows = <<>> THEN <<>> ELSE Head(rows) \o CellsOf(Tail(rows))

IsLit(cell) == cell._tag = "Lit"
LiteralCells(cells) == SelectSeq(cells, IsLit)

IsLiteralRows(values) ==
    /\ values # null
    /\ values._tag = "ValuesConstructor"
    /\ \A c \in {CellsOf(values.values)[i] : i \in DOMAIN CellsOf(values.values)} :
            c._tag \in {"Lit", "DefaultValue"}

ColumnList(columns) ==
    IF columns = <<>> THEN ""
    ELSE " (" \o JoinStrings([i \in DOMAIN columns |-> Quoted(columns[i].name)], ", ") \o ")"

\* Cell i of row k, `start` values being bound before the rows
NumberedCell(rows, k, i, start) ==
    IF IsLit(rows[k][i])
    THEN DollarN[start + Len(LiteralCells(CellsOf(SubSeq(rows, 1, k - 1))))
                       + Len(LiteralCells(SubSeq(rows[k], 1, i)))]
    ELSE "DEFAULT"

NumberedRow(rows, k, start) ==
    "(" \o JoinStrings([i \in DOMAIN rows[k] |-> NumberedCell(rows, k, i, start)], ", ") \o ")"

C4_InsertNumbersCellsRowByRow ==
    (/\ Called("renderStatement")
     /\ opts = [paramsMode |-> "true", placeHolderStyle |-> "undefined"]
     /\ last.arg._tag = "Insert"
     /\ IsLiteralRows(last.arg.values)) =>
        LET rows == last.arg.values.values
            cells == LiteralCells(CellsOf(rows))
        IN  /\ Returned
            /\ Flatten(last.text) =
                    "INSERT INTO " \o Quoted(last.arg.table.name) \o ColumnList(last.arg.columns)
                    \o " VALUES "
                    \o JoinStrings([k \in DOMAIN rows |-> NumberedRow(rows, k, Len(last.before))],
                                   ", ")
            /\ Pushed = [i \in DOMAIN cells |-> BoundValue(cells[i].literal)]

\* the employee example of src/test/insert.ts
C4_Witness ==
    /\ Called("renderStatement") /\ Fresh
    /\ opts = [paramsMode |-> "true", placeHolderStyle |-> "undefined"]
    /\ last.arg = Insert("employee", EmployeeColumns, ValuesConstructor(<<CharlotteRow>>))
    /\ Flatten(last.text) =
        "INSERT INTO \"employee\" (\"id\", \"name\", \"salary\", \"department_id\") VALUES ($1, $2, $3, $4)"
    /\ renderer.params = <<JsNum(5), JsStr("Charlotte"), JsNum(5000), JsNum(55)>>

----------------------------------------------------------------------------
(* C5: in inline mode renderInsert yields 'INSERT INTO ' + quoted table, then
   ' (' + quoted columns joined by ', ' + ')' only when columns is non-empty,
   then one space and the values part: 'DEFAULT VALUES', or 'VALUES (r1), (r2)'
   whose cells are joined by ', ' with a DefaultValue cell as the bare keyword
   DEFAULT, or the rendered sub-query. *)
InlineCell(c) ==
    IF c._tag = "DefaultValue" THEN "DEFAULT" ELSE Flatten(Apply("renderExpr", renderer, c).text)

InlineRow(row) == "(" \o JoinStrings([i \in DOMAIN row |-> InlineCell(row[i])], ", ") \o ")"

InlineValues(values) ==
    CASE values._tag = "DefaultValues" -> "DEFAULT VALUES"
      [] values._tag = "ValuesConstructor" ->
            "VALUES " \o JoinStrings([k \in DOMAIN values.values |-> InlineRow(values.values[k])],
                                     ", ")
      [] values._tag = "ValuesQuery" -> Flatten(Apply("renderQuery", renderer, values.query).text)

C5_InsertInline ==
    (/\ Called("renderStatement") /\ ~ParamsMode
     /\ last.arg._tag = "Insert"
     /\ last.arg \notin UnsupportedU
     /\ last.arg.values # null) =>
        /\ Returned
        /\ Flatten(last.text) =
                "INSERT INTO " \o Quoted(last.arg.table.name) \o ColumnList(last.arg.columns)
                \o " " \o InlineValues(last.arg.values)

\* insert-from-select without a column list
C5_Witness ==
    /\ Called("renderStatement") /\ ~ParamsMode
    /\ last.arg = Insert("employee", <<>>, ValuesQuery(QueryOf(SelectStar)))
    /\ Flatten(last.text) = "INSERT INTO \"employee\" SELECT * FROM \"employee\""

----------------------------------------------------------------------------
(* C6: rendering an Insert whose values is null fails before any output is
   produced, in inline and in parameter mode alike, and leaves params as it
   was before the call. *)
C6_InsertWithoutValuesFails ==
    (Called("renderStatement") /\ last.arg._tag = "Insert" /\ last.arg.values = null) =>
        /\ Threw
        /\ last.text = <<>>
        /\ renderer.params = last.before

\* the failure in parameter mode on a renderer that already holds a value
C6_Witness ==
    /\ Called("renderStatement") /\ ParamsMode
    /\ last.arg = Insert("employee", EmployeeColumns, null)
    /\ last.before # <<>>
    /\ last.error = "Invalid Insert. Insert must have VALUES"

----------------------------------------------------------------------------
(* C7: in inline mode renderLiteral embeds the value in the SQL text and never
   touches params: a NumLit number becomes its decimal text, a NumLit holding a
   pre-formatted string is emitted verbatim, a StringLit is wrapped in single
   quotes with its characters unchanged, a BoolLit becomes TRUE or FALSE, a
   NullLit becomes NULL and a DateLit becomes DATE '<ISO-8601 of the date>'. *)
Decimal(n) ==
    CASE n = 5 -> "5" [] n = 55 -> "55" [] n = 5000 -> "5000" [] n = -7 -> "-7"

Iso8601(d) ==
    CASE d = JsDate(2020, 1, 5) -> "2020-01-05T00:00:00.000Z"
      [] d = JsDate(987, 11, 23) -> "0987-11-23T00:00:00.000Z"

InlineLiteral(literal) ==
    CASE literal._tag = "NumLit" /\ literal.val.t = "number" -> Decimal(literal.val.v)
      [] literal._tag = "NumLit" /\ literal.val.t = "string" -> literal.val.v
      [] literal._tag = "StringLit" -> "'" \o literal.val.v \o "'"
      [] literal._tag = "BoolLit" -> IF literal.val.v THEN "TRUE" ELSE "FALSE"
      [] literal._tag = "NullLit" -> "NULL"
      [] literal._tag = "DateLit" -> "DATE '" \o Iso8601(literal.val) \o "'"

C7_InlineLiteral ==
    (Called("renderLiteral") /\ ~ParamsMode /\ last.arg._tag # "CustomLit") =>
        /\ Returned
        /\ Flatten(last.text) = InlineLiteral(last.arg)
        /\ renderer.params = last.before

\* a string with a quote in it, wrapped in quotes as it is
C7_Witness ==
    /\ Called("renderLiteral") /\ ~ParamsMode
    /\ last.arg = StringLit("O'Brien")
    /\ Flatten(last.text) = "'O'Brien'"
    /\ renderer.params = <<>>

----------------------------------------------------------------------------
(* C8: every identifier is rendered as its name wrapped in double quotes, with
   no change to its characters, wherever it appears (table, column, alias,
   cursor, CTE name); a CompoundIdentifier is its quoted parts joined by '.'. *)
Range(seq) == {seq[i] : i \in DOMAIN seq}

SelectIdents(sel) ==
    {s.alias : s \in {x \in Range(sel.selections) : x._tag = "AliasedSelection"}}
    \cup (IF sel.from = null THEN {}
          ELSE {IF t._tag = "BasicTable" THEN t.name ELSE t.alias :
                    t \in {x \in {sel.from.table} \cup {j.table : j \in Range(sel.from.joins)} :
                              x._tag # "TableExtension"}})

\* The identifiers of a statement in table, column, alias, cursor and CTE name position
StatementIdents(statement) ==
    CASE statement._tag = "Insert" -> {statement.table} \cup Range(statement.columns)
      [] statement._tag \in {"Update", "UpdatePositioned"} ->
            {statement.table} \cup {a[1] : a \in Range(statement.assignments)}
            \cup (IF statement._tag = "Update" THEN {} ELSE {statement.cursor})
      [] statement._tag = "Delete" -> {statement.table}
      [] statement._tag = "DeletePositioned" -> {statement.table, statement.cursor}
      [] statement._tag = "Query" ->
            {c.alias.name : c \in Range(statement.commonTableExprs)}
            \cup UNION {Range(c.alias.columns) : c \in Range(statement.commonTableExprs)}
            \cup SelectIdents(statement.selection)
            \cup UNION {SelectIdents(u.select) : u \in Range(statement.unions)}
      [] OTHER -> {}

C8_IdentifiersQuotedUnchanged ==
    /\ (Called("renderExpr") /\ last.arg._tag = "Ident") =>
            Returned /\ Flatten(last.text) = Quoted(last.arg.name)
    /\ (Called("renderExpr") /\ last.arg._tag = "CompoundIdentifier") =>
            /\ Returned
            /\ Flatten(last.text) =
                JoinStrings([i \in DOMAIN last.arg.idChain |-> Quoted(last.arg.idChain[i].name)], ".")
    /\ (Called("renderStatement") /\ Returned) =>
            \A ident \in StatementIdents(last.arg) : Quoted(ident.name) \in Range(last.text)
    /\ (Called("renderSelect") /\ Returned) =>
            \A ident \in SelectIdents(last.arg) : Quoted(ident.name) \in Range(last.text)
    /\ (Called("renderStatement") /\ last.arg._tag = "DeletePositioned") =>
            /\ Returned
            /\ Flatten(last.text) = "DELETE FROM " \o Quoted(last.arg.table.name)
                                    \o " WHERE CURRENT OF " \o Quoted(last.arg.cursor.name)

\* a compound identifier with a double quote and a keyword among its parts
C8_Witness ==
    /\ Called("renderExpr")
    /\ last.arg = CompoundIdentifier(<<Ident("a\"b"), Ident("select"), Ident("id")>>)
    /\ Flatten(last.text) = "\"a\"b\".\"select\".\"id\""

----------------------------------------------------------------------------
(* The text of a part, rendered on its own, with every '$n' read as '$' *)
Anonymous(text) == [i \in DOMAIN text |-> IF IsDollarN(text[i]) THEN "$" ELSE text[i]]
TextOf(f, x) == Flatten(Anonymous(Apply(f, With(renderer, <<>>), x).text))
TextOfStep(step) == TextOf(step.f, step.x)

(* C9: renderQuery's text is, in this order, 'WITH ' + CTEs joined by ', ' +
   ' ' (each CTE name, optional ' (cols)', ' AS (' + sub-query + ')'), the main
   Select, each union as exactly one space + its keyword + optional ' ALL' +
   one space + its Select, then ' ORDER BY ' + ordering items joined by ', ',
   ' LIMIT ' + expr and ' OFFSET ' + expr, with no other text and no doubled
   separator between the parts. *)
ExpectedCte(cte) ==
    Quoted(cte.alias.name.name) \o ColumnList(cte.alias.columns)
    \o " AS (" \o TextOf("renderQuery", cte.query) \o ")"

ExpectedUnion(u) ==
    " " \o u.func \o (IF u.all THEN " ALL" ELSE "") \o " " \o TextOf("renderSelect", u.select)

ExpectedOrdering(o) ==
    TextOf("renderExpr", o.expr)
    \o (IF o.order = null THEN "" ELSE " " \o o.order.v)
    \o (IF o.nullHandling = null THEN "" ELSE " " \o o.nullHandling.v)

ExpectedQuery(q) ==
    (IF q.commonTableExprs = <<>> THEN ""
     ELSE "WITH " \o JoinStrings([i \in DOMAIN q.commonTableExprs |->
                                     ExpectedCte(q.commonTableExprs[i])], ", ") \o " ")
    \o TextOf("renderSelect", q.selection)
    \o JoinStrings([i \in DOMAIN q.unions |-> ExpectedUnion(q.unions[i])], "")
    \o (IF q.ordering = <<>> THEN ""
        ELSE " ORDER BY " \o JoinStrings([i \in DOMAIN q.ordering |->
                                             ExpectedOrdering(q.ordering[i])], ", "))
    \o (IF q.limit = null THEN "" ELSE " LIMIT " \o TextOf("renderExpr", q.limit))
    \o (IF q.offset = null THEN "" ELSE " OFFSET " \o TextOf("renderExpr", q.offset))

C9_QueryTextOrder ==
    (Called("renderStatement") /\ Returned /\ last.arg._tag = "Query") =>
        Flatten(Anonymous(last.text)) = ExpectedQuery(last.arg)

----------------------------------------------------------------------------
(* C10: renderSelect's text starts with 'SELECT ' + the selections joined by
   ', ', each bare or '<expr> AS <quoted alias>'; when from is set it goes on
   with ' FROM ' + the base table and, for each join in order,
   ' <Kind> JOIN <table> ON <cond>'; when from is null there is no FROM clause
   at all.  WHERE, GROUP BY and HAVING follow as the renderer writes them. *)
ExpectedSelection(s) ==
    IF s._tag = "AnonymousSelection" THEN TextOf("renderExpr", s.selection)
    ELSE TextOf("renderExpr", s.selection) \o " AS " \o Quoted(s.alias.name)

ExpectedJoin(jn) ==
    " " \o jn.kind \o " JOIN " \o TextOf("renderTable", jn.table)
    \o " ON " \o TextOf("renderExpr", jn.on)

ExpectedFrom(frm) ==
    IF frm = null THEN ""
    ELSE " FROM " \o TextOf("renderTable", frm.table)
         \o JoinStrings([i \in DOMAIN frm.joins |-> ExpectedJoin(frm.joins[i])], "")

C10_SelectText ==
    (Called("renderSelect") /\ Returned) =>
        Flatten(Anonymous(last.text)) =
            "SELECT "
            \o JoinStrings([i \in DOMAIN last.arg.selections |->
                               ExpectedSelection(last.arg.selections[i])], ", ")
            \o ExpectedFrom(last.arg.from)
            \o TextOfStep(Optional(<<" WHERE ">>, "renderExpr", last.arg.where, <<>>))
            \o TextOfStep(NonEmpty(<<" GROUP BY">>, "renderExpr", last.arg.groupBy, ", ", <<>>))
            \o TextOfStep(Optional(<<" HAVING">>, "renderExpr", last.arg.having, <<>>))

\* an aliased selection, a derived base table and two joins
C10_Witness ==
    /\ Called("renderSelect") /\ Returned /\ ~ParamsMode
    /\ Len(last.arg.selections) = 3
    /\ last.arg.from # null
    /\ Len(last.arg.from.joins) = 2
    /\ last.arg.where = null
    /\ Flatten(last.text) =
        "SELECT \"id\", 'Charlotte' AS \"who\", \"employee\".\"id\" AS \"a\"b\" FROM (SELECT 'Charlotte') AS \"t\" LEFT OUTER JOIN \"department\" ON \"department\".\"id\" = \"employee\".\"id\" FULL OUTER JOIN (\"f\"(5)) AS \"g\" ON \"department\".\"id\" = 55"

----------------------------------------------------------------------------
(* C11: Update renders 'UPDATE <table> SET <assignments joined by ", ">' with
   ' WHERE <expr>' appended only when where is non-null, a DefaultValue
   assignment being '<col> = DEFAULT'; Delete renders 'DELETE FROM <table>'
   with the same optional WHERE; UpdatePositioned and DeletePositioned always
   end with ' WHERE CURRENT OF <quoted cursor>' and render no WHERE
   expression. *)
ExpectedAssignment(a) ==
    Quoted(a[1].name) \o " = "
    \o (IF a[2]._tag = "DefaultValue" THEN "DEFAULT" ELSE TextOf("renderExpr", a[2]))

ExpectedSets(assignments) ==
    JoinStrings([i \in DOMAIN assignments |-> ExpectedAssignment(assignments[i])], ", ")

ExpectedWhere(where) == IF where = null THEN "" ELSE " WHERE " \o TextOf("renderExpr", where)

ExpectedDml(st) ==
    CASE st._tag = "Update" ->
            "UPDATE " \o Quoted(st.table.name) \o " SET " \o ExpectedSets(st.assignments)
            \o ExpectedWhere(st.where)
      [] st._tag = "UpdatePositioned" ->
            "UPDATE " \o Quoted(st.table.name) \o " SET " \o ExpectedSets(st.assignments)
            \o " WHERE CURRENT OF " \o Quoted(st.cursor.name)
      [] st._tag = "Delete" -> "DELETE FROM " \o Quoted(st.table.name) \o ExpectedWhere(st.where)
      [] st._tag = "DeletePositioned" ->
            "DELETE FROM " \o Quoted(st.table.name)
            \o " WHERE CURRENT OF " \o Quoted(st.cursor.name)

C11_UpdateAndDeleteText ==
    (/\ Called("renderStatement") /\ Returned
     /\ last.arg._tag \in {"Update", "UpdatePositioned", "Delete", "DeletePositioned"}) =>
        Flatten(Anonymous(last.text)) = ExpectedDml(last.arg)

\* an update with a DEFAULT assignment, a literal assignment and a WHERE
C11_Witness ==
    /\ Called("renderStatement") /\ ~ParamsMode
    /\ last.arg._tag = "Update"
    /\ last.arg.where # null
    /\ Flatten(last.text) =
        "UPDATE \"employee\" SET \"salary\" = DEFAULT, \"name\" = 'Charlotte' WHERE \"id\" = 5"

----------------------------------------------------------------------------
(* C12: renderConstraintCheckTime maps (deferrable, initiallyDeferred) to four
   distinct phrases: (T,T) 'INITIALLY DEFERRED DEFERRABLE', (T,F) 'INITIALLY
   IMMEDIATE DEFERRABLE', (F,T) 'INITIALLY DEFERRED NOT DEFERRABLE', (F,F)
   'INITIALLY IMMEDIATE NOT DEFERRABLE'; a constraint, domain constraint or
   assertion whose check-time attribute is null renders no such phrase, and
   one that has the attribute ends with a space and its phrase. *)
Phrase(cct) ==
    CASE cct = ConstraintCheckTime(TRUE, TRUE) -> "INITIALLY DEFERRED DEFERRABLE"
      [] cct = ConstraintCheckTime(TRUE, FALSE) -> "INITIALLY IMMEDIATE DEFERRABLE"
      [] cct = ConstraintCheckTime(FALSE, TRUE) -> "INITIALLY DEFERRED NOT DEFERRABLE"
      [] cct = ConstraintCheckTime(FALSE, FALSE) -> "INITIALLY IMMEDIATE NOT DEFERRABLE"

IsPhrase(chunk) == \E cct \in CheckTimeU : chunk = Phrase(cct)

\* The check-time attribute of the node the last call rendered
CheckTimeOf(op, arg) ==
    CASE op = "renderDomainConstraint" -> arg.attrs
      [] op = "renderColumnConstraint" -> arg.attributes
      [] op = "renderTableConstraint" -> arg.checkTime
      [] op = "renderStatement" -> arg.checkTime

HasCheckTime ==
    \/ last.op \in {"renderDomainConstraint", "renderColumnConstraint", "renderTableConstraint"}
    \/ Called("renderStatement") /\ last.arg._tag = "AssertionDefinition"

C12_CheckTimePhrases ==
    /\ Called("renderConstraintCheckTime") =>
            Returned /\ last.text = <<Phrase(last.arg)>>
    /\ \A c1, c2 \in CheckTimeU : Phrase(c1) = Phrase(c2) => c1 = c2
    /\ (HasCheckTime /\ Returned) =>
            IF CheckTimeOf(last.op, last.arg) = null
            THEN SelectSeq(last.text, IsPhrase) = <<>>
            ELSE /\ SelectSeq(last.text, IsPhrase) = <<Phrase(CheckTimeOf(last.op, last.arg))>>
                 /\ SubSeq(last.text, Len(last.text) - 1, Len(last.text))
                        = <<" ", Phrase(CheckTimeOf(last.op, last.arg))>>

\* a named domain constraint with deferrable = true, initiallyDeferred = false
C12_Witness ==
    /\ Called("renderDomainConstraint") /\ ~ParamsMode
    /\ last.arg.name # null
    /\ last.arg.attrs = ConstraintCheckTime(TRUE, FALSE)
    /\ Flatten(last.text) =
        "\"positive\" SELECT 'Charlotte' AS \"who\" FROM \"employee\" INNER JOIN \"department\" ON \"department\".\"id\" = 55 WHERE \"id\" = 5 INITIALLY IMMEDIATE DEFERRABLE"

----------------------------------------------------------------------------
(* C13: renderGrantStatement renders 'GRANT <privileges> ON <object type>
   <quoted object name> TO <grantees>[ WITH GRANT OPTION]': <privileges> is
   'ALL PRIVILEGES' exactly when the privilege list is null and the list's
   privileges joined by ', ' whenever a list is present (the empty list
   included), <grantees> is 'PUBLIC' exactly when grantees is null and the
   quoted grantee names joined by ', ' otherwise. *)
ExpectedPrivilege(p) ==
    CASE p._tag = "SelectPrivilege" -> "SELECT"
      [] p._tag = "DeletePrivilege" -> "DELETE"
      [] p._tag = "UsagePrivilege" -> "USAGE"
      [] p._tag = "InsertPrivilege" -> "INSERT"
      [] p._tag = "UpdatePrivilege" -> "UPDATE"
      [] p._tag = "ReferencePrivilege" -> "REFERENCES"

ExpectedObjectType(t) ==
    CASE t = "Table" -> "TABLE"
      [] t = "Domain" -> "DOMAIN"
      [] t = "Collation" -> "COLLATION"

ExpectedGrantHead(def) ==
    "GRANT "
    \o (IF def.privileges = null THEN "ALL PRIVILEGES"
        ELSE JoinStrings([i \in DOMAIN def.privileges.items |->
                             ExpectedPrivilege(def.privileges.items[i])], ", "))

ExpectedGrantTail(def) ==
    " ON " \o ExpectedObjectType(def.objectType) \o " " \o Quoted(def.objectName.name)
    \o " TO "
    \o (IF def.grantees = null THEN "PUBLIC"
        ELSE JoinStrings([i \in DOMAIN def.grantees.items |->
                             Quoted(def.grantees.items[i].name)], ", "))
    \o (IF def.grantOption THEN " WITH GRANT OPTION" ELSE "")

C13_GrantText ==
    (Called("renderStatement") /\ last.arg._tag = "GrantStatement") =>
        /\ Returned
        /\ \* an empty column list may follow the last privilege's keyword
           \E columns \in {"", " ()"} :
                Flatten(last.text) = ExpectedGrantHead(last.arg) \o columns
                                     \o ExpectedGrantTail(last.arg)

----------------------------------------------------------------------------
(* C14: on a Renderer without overrides, renderStatement of a tree that holds
   an ExprExtension, a TableExtension, a Cast, or a column or domain with a
   DataType raises the error of the hook the node needs; it never returns. *)
HookErrors ==
    {"Custom expression encountered, please extend the renderer",
     "Custom table encountered, please extend the renderer",
     "Unimplemented"}

\* the CreateSchema statements that nest a definition with a data type
SchemaWithDataType ==
    {s \in SchemaU : \E i \in DOMAIN s.definitions :
        s.definitions[i] \in UnsupportedU}

C14_UnsupportedNodeRaises ==
    (Called("renderStatement") /\ last.arg \in UnsupportedU \cup SchemaWithDataType) =>
        Threw /\ last.error \in HookErrors

----------------------------------------------------------------------------
(* C15: renderStatement has a render branch for every statement, the schema
   statements SchemaBuilder produces included (TableDefinition, ViewDefinition,
   DomainDefinition, AssertionDefinition, GrantStatement, RevokePrivilege,
   DropTable, DropView, DropDomain, DropAssertion): a call either raises or
   returns a string, never a value that is no string and never the statement
   object itself. *)
C15_StatementDispatchExhaustive ==
    Called("renderStatement") =>
        /\ last.object = null
        /\ last.object # last.arg
        /\ last.error = "" => last.text # <<>>

----------------------------------------------------------------------------
(* C16: no partial output: for every statement renderStatement either returns
   the SQL text or raises; an error raised at any depth (an Insert without
   values, an extension node, a data type, a custom literal in inline mode)
   reaches the caller of renderStatement and no text is returned with it. *)
RaisesBelow(statement) ==
    \/ statement._tag = "Insert" /\ statement.values = null
    \/ statement \in UnsupportedU
    \/ statement = DeleteCustom /\ ~ParamsMode

C16_TextOrError ==
    Called("renderStatement") =>
        /\ \/ Returned /\ last.text # <<>>
           \/ Threw /\ last.text = <<>> /\ last.object = null
        /\ RaisesBelow(last.arg) => Threw

----------------------------------------------------------------------------
(* C17: determinism: for every literal and every configuration, two freshly
   constructed renderers of the same configuration that each render the same
   literal once produce the same string (or the same error) and end with the
   same params buffer. *)
C17_Deterministic ==
    (twin # NoTwin /\ twin.arg = last.arg) =>
        /\ twin.text = last.text
        /\ twin.error = last.error
        /\ twin.renderer.params = renderer.params
        /\ twin.renderer = renderer

\* both instances bound 'Charlotte' as $1
C17_Witness ==
    /\ twin # NoTwin /\ ParamsMode /\ Dollar
    /\ last.arg = StringLit("Charlotte") /\ twin.arg = last.arg
    /\ Flatten(twin.text) = "$1" /\ Flatten(last.text) = "$1"
    /\ twin.renderer.params = <<JsStr("Charlotte")>>
    /\ renderer.params = <<JsStr("Charlotte")>>

----------------------------------------------------------------------------
(* C18: rendering never mutates the tree: after every render call, returning
   or raising, in inline or parameter mode, the node that was passed in is
   field for field what it was before the call, and the call changes nothing
   of the renderer but its params buffer: the mode and the placeholder style
   of the instance and the options it was built from stay as they were. *)
C18_OnlyParamsChange ==
    [][/\ last'.tree = last'.arg
       /\ DOMAIN last'.tree = DOMAIN last'.arg
       /\ opts' = opts
       /\ DOMAIN renderer' = DOMAIN renderer
       /\ renderer'._paramsMode = renderer._paramsMode
       /\ renderer'._placeHolderStyle = renderer._placeHolderStyle]_vars

\* a call in parameter mode that bound a value and then raised
C18_Witness ==
    /\ Called("renderStatement") /\ Threw /\ ParamsMode
    /\ renderer._placeHolderStyle = "?"
    /\ last.arg = Update("employee", <<<<Ident("salary"), BinaryApp(Lit5, "+", CustomExpr)>>>>, IdEq5)
    /\ last.tree = last.arg
    /\ Len(renderer.params) > Len(last.before)

----------------------------------------------------------------------------
(* C19: QueryBuilder.select(cols) appends the selections of cols, in argument
   order, to the root Select when the query has no unions, and to the last
   union's Select when it has; in the second case the root Select, every
   earlier union, the number of unions and the last union's set operator are
   what they were. *)
SelectionFor(c) ==
    IF c.t = "object" THEN c.v
    ELSE CASE c.v = <<"id">> -> AnonymousSelection(Ident("id"))
           [] c.v = <<"employee", ".", "name">> ->
                AnonymousSelection(CompoundIdentifier(<<Ident("employee"), Ident("name")>>))

Added == [i \in DOMAIN made.args[1] |-> SelectionFor(made.args[1][i])]
Receiver == builders[made.this]
Result == builders[made.returned]
LastUnion(q) == q.unions[Len(q.unions)]

C19_SelectTargetsActiveSelect ==
    made.op = "select" =>
        /\ made.returned \in DOMAIN builders
        /\ IF Receiver._query.unions = <<>>
           THEN /\ Result._query.selection.selections
                       = Receiver._query.selection.selections \o Added
                /\ Result._query.unions = <<>>
           ELSE /\ Result._query.selection = Receiver._query.selection
                /\ Len(Result._query.unions) = Len(Receiver._query.unions)
                /\ \A i \in 1..(Len(Receiver._query.unions) - 1) :
                        Result._query.unions[i] = Receiver._query.unions[i]
                /\ LastUnion(Result._query).func = LastUnion(Receiver._query).func
                /\ LastUnion(Result._query).all = LastUnion(Receiver._query).all
                /\ LastUnion(Result._query).select.selections
                       = LastUnion(Receiver._query).select.selections \o Added

\* a select of three columns on a query of two unions whose last one selects id
C19_Witness ==
    /\ made.op = "select"
    /\ Len(Receiver._query.unions) = 2
    /\ Receiver._query.selection.selections = <<>>
    /\ LastUnion(Receiver._query).select.selections = <<AnonymousSelection(Ident("id"))>>
    /\ Result._query.selection.selections = <<>>
    /\ LastUnion(Result._query).select.selections
        = <<AnonymousSelection(Ident("id")),
            AliasedSelection(FunctionApp(Ident("CHAR_LENGTH"), <<Ident("name")>>), "n"),
            AnonymousSelection(Ident("id")),
            AnonymousSelection(CompoundIdentifier(<<Ident("employee"), Ident("name")>>))>>

----------------------------------------------------------------------------
(* C20: the builders never mutate in place: select, selectAs, join, with,
   orderBy, limit and offset of QueryBuilder and every statement method of
   SchemaBuilder return a builder that was not there before, and after any
   sequence of calls every builder still holds the query or statement list it
   was constructed with. *)
ConstructionOps ==
    {"select", "selectAs", "join", "with", "orderBy", "limit", "offset",
     "createTable", "createView", "grant", "createDomain", "createAssertion",
     "dropTable", "dropView", "revoke", "dropDomain", "dropAssertion"}

C20_BuildersNeverMutated ==
    /\ builders = created
    /\ made.op \in ConstructionOps =>
        /\ made.returned = Len(builders)
        /\ made.returned # made.this
        /\ Result._tag = Receiver._tag
        /\ Result._tag = "SchemaBuilder" =>
            /\ Len(Result._statements) = Len(Receiver._statements) + 1
            /\ SubSeq(Result._statements, 1, Len(Receiver._statements)) = Receiver._statements

\* the builder from('employee') made is used twice, for a select and then for
\* a join, and still holds the query it was made with
C20_Witness ==
    /\ Len(builders) = 3
    /\ made.op = "join" /\ made.this = 1 /\ made.returned = 3
    /\ \A i \in 1..3 : builders[i]._tag = "QueryBuilder"
    /\ builders[1] = from(Str(<<"employee">>))
    /\ builders[2]._query.selection.selections # <<>>
    /\ builders[2]._query.selection.from.joins = <<>>
    /\ builders[3]._query.selection.selections = <<>>
    /\ Len(builders[3]._query.selection.from.joins) = 1

----------------------------------------------------------------------------
(* C21: in renderSelect's text a non-empty groupBy renders as ' GROUP BY '
   followed by the grouping expressions joined by ', ', a non-null having as
   ' HAVING ' followed by the predicate: each keyword is separated by a space
   from the expression after it, and the clauses come after WHERE in the
   order WHERE, GROUP BY, HAVING. *)
ExpectedGroupBy(groupBy) ==
    IF groupBy = <<>> THEN ""
    ELSE " GROUP BY " \o JoinStrings([i \in DOMAIN groupBy |-> TextOf("renderExpr", groupBy[i])],
                                     ", ")

ExpectedHaving(having) ==
    IF having = null THEN "" ELSE " HAVING " \o TextOf("renderExpr", having)

C21_GroupByHavingWellFormed ==
    (Called("renderSelect") /\ Returned) =>
        Flatten(Anonymous(last.text)) =
            "SELECT "
            \o JoinStrings([i \in DOMAIN last.arg.selections |->
                               ExpectedSelection(last.arg.selections[i])], ", ")
            \o ExpectedFrom(last.arg.from)
            \o (IF last.arg.where = null THEN ""
                ELSE " WHERE " \o TextOf("renderExpr", last.arg.where))
            \o ExpectedGroupBy(last.arg.groupBy)
            \o ExpectedHaving(last.arg.having)

----------------------------------------------------------------------------
(* C22: a grant with a privilege list renders every privilege of the list:
   SELECT, DELETE and USAGE as the keyword, INSERT, UPDATE and REFERENCES as
   the keyword followed by ' (<quoted columns joined by ", ">)' when their
   columns are non-null; a grant SchemaBuilder.grant builds from the
   shorthands 'INSERT', 'UPDATE' or 'REFERENCES' renders without raising. *)
HasColumns(p) ==
    /\ p._tag \in {"InsertPrivilege", "UpdatePrivilege", "ReferencePrivilege"}
    /\ p.columns # null

ExpectedPrivilegeWithColumns(p) ==
    ExpectedPrivilege(p)
    \o (IF HasColumns(p)
        THEN " (" \o JoinStrings([i \in DOMAIN p.columns.items |->
                                     Quoted(p.columns.items[i].name)], ", ") \o ")"
        ELSE "")

C22_EveryPrivilegeRenders ==
    (Called("renderStatement") /\ last.arg._tag = "GrantStatement"
        /\ last.arg.privileges # null) =>
        /\ ~Threw
        /\ Flatten(last.text) =
            "GRANT "
            \o JoinStrings([i \in DOMAIN last.arg.privileges.items |->
                               ExpectedPrivilegeWithColumns(last.arg.privileges.items[i])], ", ")
            \o ExpectedGrantTail(last.arg)

----------------------------------------------------------------------------
(* C23: renderReferenceConstraint follows 'REFERENCES <table>[ (<columns>)]
   [ MATCH FULL|PARTIAL][ ON UPDATE <action>][ ON DELETE <action>]': every
   keyword is separated by a space from the token after it, the action is
   one of CASCADE, SET NULL, SET DEFAULT, NO ACTION, and each optional part
   appears exactly when its field is non-null (the match part exactly when
   matchType is not Regular). *)
ExpectedAction(action) ==
    CASE action = JsStr("Cascade") -> "CASCADE"
      [] action = JsStr("SetNull") -> "SET NULL"
      [] action = JsStr("SetDefault") -> "SET DEFAULT"
      [] action = JsStr("NoAction") -> "NO ACTION"

ExpectedReference(def) ==
    "REFERENCES " \o Quoted(def.table.name)
    \o (IF def.columns = null THEN ""
        ELSE " (" \o JoinStrings([i \in DOMAIN def.columns.items |->
                                     Quoted(def.columns.items[i].name)], ", ") \o ")")
    \o (CASE def.matchType = "Regular" -> ""
          [] def.matchType = "Full" -> " MATCH FULL"
          [] def.matchType = "Partial" -> " MATCH PARTIAL")
    \o (IF def.onUpdate = null THEN "" ELSE " ON UPDATE " \o ExpectedAction(def.onUpdate))
    \o (IF def.onDelete = null THEN "" ELSE " ON DELETE " \o ExpectedAction(def.onDelete))

C23_ReferenceGrammar ==
    Called("renderReferenceConstraint") =>
        Returned /\ Flatten(last.text) = ExpectedReference(last.arg)

----------------------------------------------------------------------------
(* C24: renderViewDefinition returns 'CREATE VIEW <quoted name>
   [ (<quoted columns joined by ", ">)] AS <query>
   [ WITH CASCADED|LOCAL CHECK OPTION]': the column list is parenthesised and
   comma-space separated when columns is non-null and absent when it is null,
   and the check option appears exactly when checkOption is non-null. *)
ExpectedViewColumns(def) ==
    IF def.columns = null THEN ""
    ELSE " (" \o JoinStrings([i \in DOMAIN def.columns.items |->
                                 Quoted(def.columns.items[i].name)], ", ") \o ")"

ExpectedCheckOption(def) ==
    CASE def.checkOption = null -> ""
      [] def.checkOption = JsStr("Cascaded") -> " WITH CASCADED CHECK OPTION"
      [] def.checkOption = JsStr("Local") -> " WITH LOCAL CHECK OPTION"

C24_ViewDefinitionGrammar ==
    (Called("renderStatement") /\ last.arg \in ViewU) =>
        /\ Returned
        /\ Flatten(Anonymous(last.text)) =
               "CREATE VIEW " \o Quoted(last.arg.name.name) \o ExpectedViewColumns(last.arg)
               \o " AS " \o TextOf("renderQuery", last.arg.query) \o ExpectedCheckOption(last.arg)

----------------------------------------------------------------------------
(* C25: the params buffer is append-only and never reset: across any call its
   length never decreases and the values already in it never change.  In
   parameter mode a call that returns adds one value per literal it visited,
   one per placeholder of its text, so that a second statement's placeholders
   continue after the first's ('$k+1' on); in inline mode the buffer stays
   empty forever. *)
C25_Continues(before, text, after) ==
    LET placeholders == Placeholders(text)
    IN  /\ Len(after) = Len(before) + Len(placeholders)
        /\ Dollar => {placeholders[i] : i \in DOMAIN placeholders}
                         = {DollarN[n] : n \in (Len(before) + 1)..Len(after)}

C25_ParamsAppendOnly ==
    [][/\ Len(renderer'.params) >= Len(renderer.params)
       /\ SubSeq(renderer'.params, 1, Len(renderer.params)) = renderer.params
       /\ ~renderer._paramsMode => (renderer.params = <<>> /\ renderer'.params = <<>>)
       /\ (renderer._paramsMode /\ calls' # calls /\ last'.error = "") =>
              C25_Continues(renderer.params, last'.text, renderer'.params)]_vars

\* a second call in parameter mode numbers its placeholder after the first's
C25_Witness ==
    /\ ParamsMode /\ Dollar /\ calls = 2 /\ Returned
    /\ Len(last.before) = 1
    /\ Len(renderer.params) = 3
    /\ Placeholders(last.text) = <<"$2", "$3">>
    /\ renderer.params[1] = last.before[1]

----------------------------------------------------------------------------
(* C26: a render that fails in parameter mode does not roll params back: the
   values of the literals visited before the error stay in the buffer, which
   after the call is the buffer before it extended by those values, and a
   later successful render numbers its placeholders after them. *)
UpdateThenCustom == CHOOSE st \in UnsupportedU : st._tag = "Update"
InsertThenCast == CHOOSE st \in UnsupportedU : st._tag = "Insert"

C26_KeptAfterThrow ==
    (ParamsMode /\ Threw) =>
        /\ Len(renderer.params) >= Len(last.before)
        /\ SubSeq(renderer.params, 1, Len(last.before)) = last.before
        /\ (Called("renderStatement") /\ last.arg = UpdateThenCustom) =>
               renderer.params = Append(last.before, BoundValue(Lit5.literal))
        /\ (Called("renderStatement") /\ last.arg = InsertThenCast) =>
               renderer.params = last.before \o <<BoundValue(Lit5.literal),
                                                  BoundValue(Lit55.literal)>>

C26_FailedRenderKeepsParams ==
    [][/\ C26_KeptAfterThrow'
       /\ (ParamsMode /\ Dollar /\ Threw /\ calls' # calls /\ last'.error = "") =>
              /\ SubSeq(renderer'.params, 1, Len(renderer.params)) = renderer.params
              /\ \A i \in DOMAIN Placeholders(last'.text) :
                     NumberOf(Placeholders(last'.text)[i]) > Len(renderer.params)]_vars

\* A failed render has left a value in the buffer, and a call can follow it
C26_Witness ==
    /\ ParamsMode /\ Dollar /\ Threw /\ calls = 1
    /\ Called("renderStatement") /\ last.arg = UpdateThenCustom
    /\ last.before = <<>>
    /\ renderer.params = <<BoundValue(Lit5.literal)>>

----------------------------------------------------------------------------
(* C27: a DomainDefinition produced by createDomain (fields name, dataType,
   default, constraints, collation, extensions), rendered by a renderer whose
   renderDataType is overridden, yields 'CREATE DOMAIN <quoted name> AS <type>
   [ DEFAULT ...][ COLLATE <collation>]' without raising, with no constraint
   clause when no constraints were given. *)
ExpectedBuiltDomain(def) ==
    "CREATE DOMAIN " \o Quoted(def.name.name) \o " AS " \o def.dataType._tag
    \o (IF def.default = null THEN "" ELSE " " \o TextOf("renderDefaultOption", def.default))
    \o (IF def.collation = null THEN "" ELSE " COLLATE " \o Quoted(def.collation.name))

C27_BuiltDomainRenders ==
    Called("TypedRenderer.renderStatement") =>
        Returned /\ Flatten(Anonymous(last.text)) = ExpectedBuiltDomain(last.arg)

----------------------------------------------------------------------------
(* C28: every SchemaBuilder operation (createTable, createView, grant,
   createDomain, createAssertion, dropTable, dropView, revoke, dropDomain,
   dropAssertion) returns a builder whose _statements is the receiver's list
   with exactly one new statement, the operation's, appended at the end; so
   every builder made from an empty one by n operations holds n statements in
   call order: its list without the last statement is the list of the builder
   it was made from. *)
StatementOf ==
    [createTable |-> "TableDefinition", createView |-> "ViewDefinition",
     grant |-> "GrantStatement", createDomain |-> "DomainDefinition",
     createAssertion |-> "AssertionDefinition", dropTable |-> "DropTable",
     dropView |-> "DropView", revoke |-> "RevokePrivilege", dropDomain |-> "DropDomain",
     dropAssertion |-> "DropAssertion"]

Front(statements) == SubSeq(statements, 1, Len(statements) - 1)

C28_OneStatementAppended ==
    /\ made.op \in DOMAIN StatementOf =>
        /\ made.returned \in DOMAIN builders
        /\ Result._tag = "SchemaBuilder"
        /\ Len(Result._statements) = Len(Receiver._statements) + 1
        /\ Front(Result._statements) = Receiver._statements
        /\ Result._statements[Len(Result._statements)]._tag = StatementOf[made.op]
    /\ \A i \in SchemaBuilders :
        builders[i]._statements # <<>> =>
            \E j \in SchemaBuilders :
                j < i /\ builders[j]._statements = Front(builders[i]._statements)

\* two operations in a row from an empty builder: two statements in call order
C28_Witness ==
    /\ Len(builders) = 3
    /\ \A i \in 1..3 : builders[i]._tag = "SchemaBuilder"
    /\ builders[1]._statements = <<>>
    /\ made.op = "revoke" /\ made.this = 2 /\ made.returned = 3
    /\ Len(builders[3]._statements) = 2
    /\ builders[3]._statements[1] = builders[2]._statements[1]
    /\ builders[3]._statements[1]._tag = "TableDefinition"
    /\ builders[3]._statements[2]._tag = "RevokePrivilege"

----------------------------------------------------------------------------
(* C29: orderByAsc(col, opts) and orderByDesc(col, opts) return a new
   QueryBuilder whose ordering is the receiver's with one OrderingExpr
   appended at the end, of order 'ASC' (respectively 'DESC') and of the given
   nullHandling (null when none is given), as orderBy(col, {order, ...opts})
   returns. *)
DirectionOf == [orderByAsc |-> "ASC", orderByDesc |-> "DESC"]

C29_OrderByDirectionReturnsBuilder ==
    made.op \in DOMAIN DirectionOf =>
        /\ made.returned \in DOMAIN builders
        /\ made.returned # made.this
        /\ Result._tag = "QueryBuilder"
        /\ Len(Result._query.ordering) = Len(Receiver._query.ordering) + 1
        /\ Front(Result._query.ordering) = Receiver._query.ordering
        /\ Result._query.ordering[Len(Result._query.ordering)].order = DirectionOf[made.op]
        /\ Result._query.ordering[Len(Result._query.ordering)].nullHandling
               = (IF made.op = "orderByAsc" THEN null ELSE "NULLS FIRST")

----------------------------------------------------------------------------
(* C30: renderCreateSchema renders 'CREATE SCHEMA ', the optional
   catalog-qualified schema name, the optional AUTHORIZATION and DEFAULT
   CHARACTER SET clauses and then, for every nested definition in list order,
   the text the renderer's own method for that definition returns: no nested
   definition is dropped or rendered as anything but its statement text, so a
   nested definition whose method raises makes the schema's render raise. *)
NestedText(schema) ==
    [i \in DOMAIN schema.definitions |->
        Apply("renderStatement", With(renderer, <<>>), schema.definitions[i])]

ExpectedSchemaHead(schema) ==
    "CREATE SCHEMA "
    \o (IF schema.catalog = null THEN "" ELSE Quoted(schema.catalog.name) \o ".")
    \o (IF schema.name = null THEN "" ELSE Quoted(schema.name.name) \o " ")
    \o (IF schema.authorization = null THEN ""
        ELSE "AUTHORIZATION " \o Quoted(schema.authorization.name) \o " ")
    \o (IF schema.characterSet = null THEN ""
        ELSE "DEFAULT CHARACTER SET " \o Quoted(schema.characterSet.name) \o " ")

ExpectedDefinitions(schema) ==
    IF schema.definitions = <<>> THEN ""
    ELSE " " \o JoinStrings([i \in DOMAIN schema.definitions |->
                                Flatten(Anonymous(NestedText(schema)[i].text))], " ")

C30_SchemaRendersNestedDefinitions ==
    (Called("renderStatement") /\ last.arg \in SchemaU) =>
        IF \E i \in DOMAIN last.arg.definitions : Failed(NestedText(last.arg)[i])
        THEN Threw
        ELSE /\ Returned
             /\ Flatten(Anonymous(last.text))
                    = ExpectedSchemaHead(last.arg) \o ExpectedDefinitions(last.arg)

====
